---- MODULE Spec2Model ----
(***************************************************************************)
(* Shopify analytics service: the mock store backend (MockShopifyData),    *)
(* the query dispatch of ShopifyClient, the answer synthesis of            *)
(* AnswerFormatter, and the query handler with AgentWorkflow.execute.      *)
(*                                                                         *)
(* Three specifications, one for each entry point of the code:             *)
(*   Spec      ShopifyClient.execute_query on a store, for an intent;      *)
(*   SpecFmt   the coroutine AnswerFormatter.format, awaited by its        *)
(*             caller, on an intent and rows;                              *)
(*   SpecFlow  the requests of the service: the handler query and          *)
(*             AgentWorkflow.execute, which calls format without awaiting  *)
(*             it.                                                         *)
(*                                                                         *)
(* Numbers.  Python ints are integers.  Python floats (prices, total_price,*)
(* revenue, total_spent, total_revenue, avg_daily_sales, days_remaining,   *)
(* daily_rate) are IEEE 754 binary64 values, and every operation on them   *)
(* (+, *, /, comparison, int()) rounds as the hardware does: to the        *)
(* nearest representable value, ties to the even mantissa.  A float is     *)
(* the record [sign, m, e] that stands for sign * m * 2^e, m a natural of  *)
(* exactly 53 bits; naturals of that size are sequences of base-2^15       *)
(* digits.                                                                 *)
(*                                                                         *)
(* Time.  Instants are integer ticks, TicksPerDay ticks to the day; the    *)
(* store is constructed at tick 0 and `now' is the clock reading of the    *)
(* query (datetime.utcnow()).  created_at goes through isoformat() and     *)
(* fromisoformat(), which is lossless on datetime values, so an order      *)
(* keeps its instant.                                                      *)
(***************************************************************************)
EXTENDS Integers, Sequences, FiniteSets, Bags, TLC

(***************************************************************************)
(* Bounds of the model                                                     *)
(***************************************************************************)
\* streams of draws of the random module: streams 0..MaxStream
MaxStream == 1
\* numbers in a stream before it repeats
StreamLen == 16
\* sample order record sets: samples 0..MaxSample
MaxSample == 1
\* orders of a sample record set, and the customers they belong to
SampleSize == 14
SampleCustomers == 4
\* inventory snapshots: the levels of the source halved 0..MaxDepletion times
MaxDepletion == 2
\* clock ticks to the day
TicksPerDay == 2
\* latest clock reading of a query, in ticks after the store's construction
MaxElapsed == 1

(***************************************************************************)
(* Program constants                                                       *)
(***************************************************************************)
\* _generate_orders: for day in range(90)
HistoryDays == 90
\* _generate_orders: day < 30 gets the larger number of orders
RecentDays == 30
\* _generate_orders: random.randint(3, 8) orders on a recent day
MinRecentPerDay == 3
MaxRecentPerDay == 8
\* _generate_orders: random.randint(1, 4) orders on an older day
MinOlderPerDay == 1
MaxOlderPerDay == 4
\* _generate_orders: customer_id = random.randint(1, 20)
NumCustomers == 20
\* _generate_orders: quantity = random.randint(1, 3)
MaxQuantity == 3
\* get_top_products: result[:5]
TopProductsLimit == 5
\* get_top_customers: [:10]
TopCustomersLimit == 10
\* get_top_products, get_sales_summary, _calculate_confidence: default window
DefaultDaysShort == 7
\* get_sales_velocity, get_top_customers, reorder answer: default window
DefaultDaysMonth == 30
\* get_repeat_customers: default window
DefaultDaysQuarter == 90
\* get_stockout_risks: the fixed velocity window, and the days_remaining limit
StockoutDays == 7
\* _format_inventory_answer: high risk up to 5 days
HighRiskDays == 5
\* _format_inventory_answer: future_days, the two-week buffer
BufferDays == 14

(***************************************************************************)
(* Dictionaries and strings                                                *)
(***************************************************************************)
\* dict.get(key, default)
Get(d, k, default) == IF k \in DOMAIN d THEN d[k] ELSE default

\* truthiness of a dict or list: empty is false
Truthy(d) == DOMAIN d # {}

\* str.lower() on one character
Lower(c) ==
  CASE c = "A" -> "a"
    [] c = "B" -> "b"
    [] c = "C" -> "c"
    [] c = "D" -> "d"
    [] c = "E" -> "e"
    [] c = "F" -> "f"
    [] c = "G" -> "g"
    [] c = "H" -> "h"
    [] c = "I" -> "i"
    [] c = "J" -> "j"
    [] c = "K" -> "k"
    [] c = "L" -> "l"
    [] c = "M" -> "m"
    [] c = "N" -> "n"
    [] c = "O" -> "o"
    [] c = "P" -> "p"
    [] c = "Q" -> "q"
    [] c = "R" -> "r"
    [] c = "S" -> "s"
    [] c = "T" -> "t"
    [] c = "U" -> "u"
    [] c = "V" -> "v"
    [] c = "W" -> "w"
    [] c = "X" -> "x"
    [] c = "Y" -> "y"
    [] c = "Z" -> "z"
    [] OTHER -> c

\* str.lower()
LowerStr(s) == [i \in 1..Len(s) |-> Lower(s[i])]

\* sub in s
Contains(sub, s) ==
  \E i \in 0..(Len(s) - Len(sub)) : \A j \in 1..Len(sub) : s[i + j] = sub[j]

\* any(entity.lower() in title.lower() for entity in entities)
EntityMatch(entities, title) ==
  \E k \in 1..Len(entities) : Contains(LowerStr(entities[k]), LowerStr(title))

(***************************************************************************)
(* Naturals of any size: the digits in base 2^15, least significant first, *)
(* no leading zero digit (zero is the empty sequence).  They carry the     *)
(* exact sums, products and quotients of mantissas before rounding.        *)
(***************************************************************************)
Base == 32768

\* the i-th digit, 0 beyond the leading one
Digit(a, i) == IF i <= Len(a) THEN a[i] ELSE 0

\* a without its leading zero digits
BigTrim(a) ==
  LET nz == {i \in 1..Len(a) : a[i] # 0}
  IN  IF nz = {} THEN <<>> ELSE SubSeq(a, 1, CHOOSE i \in nz : \A j \in nz : j <= i)

\* the integer n, 0 <= n < 2^31
BigOfInt(n) == BigTrim(<<n % Base, (n \div Base) % Base, n \div (Base * Base)>>)

\* the value of a, for a < 2^31
BigToInt(a) == Digit(a, 1) + Digit(a, 2) * Base + Digit(a, 3) * Base * Base

\* -1, 0, 1 as a < b, a = b, a > b
BigCmp(a, b) ==
  IF Len(a) # Len(b) THEN (IF Len(a) < Len(b) THEN 0 - 1 ELSE 1)
  ELSE LET d == {i \in 1..Len(a) : a[i] # b[i]}
       IN  IF d = {} THEN 0
           ELSE LET i == CHOOSE k \in d : \A j \in d : j <= k
                IN  IF a[i] < b[i] THEN 0 - 1 ELSE 1

\* the carry into digit i of a + b: a lower digit pair overflows and every
\* pair between it and i passes the carry on
BigCarry(a, b, i) ==
  IF \E j \in 1..(i - 1) :
       /\ Digit(a, j) + Digit(b, j) >= Base
       /\ \A k \in (j + 1)..(i - 1) : Digit(a, k) + Digit(b, k) = Base - 1
  THEN 1 ELSE 0

\* the n digits of a + b and the carry out of them
BigAddDigits(a, b, n) ==
  [i \in 1..n |-> (Digit(a, i) + Digit(b, i) + BigCarry(a, b, i)) % Base]
    \o (IF BigCarry(a, b, n + 1) = 1 THEN <<1>> ELSE <<>>)

\* a + b
BigAdd(a, b) == BigTrim(BigAddDigits(a, b, IF Len(a) > Len(b) THEN Len(a) ELSE Len(b)))

\* the borrow from digit i of a - b: a lower digit of a is short and every
\* pair between it and i passes the borrow on
BigBorrow(a, b, i) ==
  IF \E j \in 1..(i - 1) :
       /\ a[j] < Digit(b, j)
       /\ \A k \in (j + 1)..(i - 1) : a[k] = Digit(b, k)
  THEN 1 ELSE 0

\* a - b, for a >= b
BigSub(a, b) ==
  BigTrim([i \in 1..Len(a) |-> (a[i] - Digit(b, i) - BigBorrow(a, b, i) + Base) % Base])

\* a * k, for 0 <= k <= Base: the low digits of the digit products plus
\* their high digits one place up
BigMulSmall(a, k) ==
  BigAdd([i \in 1..Len(a) |-> (a[i] * k) % Base],
         <<0>> \o [i \in 1..Len(a) |-> (a[i] * k) \div Base])

\* a * Base^q
BigShiftDigits(a, q) == IF a = <<>> THEN <<>> ELSE [i \in 1..q |-> 0] \o a

\* a * (the digits lo..hi of b, each at its place), for lo <= hi
RECURSIVE BigMulDigits(_, _, _, _)
BigMulDigits(a, b, lo, hi) ==
  IF lo = hi THEN BigShiftDigits(BigMulSmall(a, b[lo]), lo - 1)
  ELSE BigAdd(BigMulDigits(a, b, lo, (lo + hi) \div 2),
              BigMulDigits(a, b, ((lo + hi) \div 2) + 1, hi))

\* a * b
BigMul(a, b) == IF b = <<>> THEN <<>> ELSE BigMulDigits(a, b, 1, Len(b))

\* a * 2^k
BigShl(a, k) == BigShiftDigits(BigMulSmall(a, 2^(k % 15)), k \div 15)

\* a \div 2^k
BigShr(a, k) ==
  LET q == k \div 15
      r == k % 15
      n == Len(a) - q
  IN  IF n <= 0 THEN <<>>
      ELSE BigTrim([i \in 1..n |->
                      (a[i + q] \div 2^r) + (Digit(a, i + q + 1) % 2^r) * 2^(15 - r)])

\* bit i of a, bit 0 the least significant
BigBit(a, i) == (Digit(a, (i \div 15) + 1) \div 2^(i % 15)) % 2

\* whether a % 2^k # 0
BigLowNonzero(a, k) ==
  \/ \E i \in 1..Len(a) : i <= k \div 15 /\ a[i] # 0
  \/ Digit(a, (k \div 15) + 1) % 2^(k % 15) # 0

\* the number of bits of the digit x
BitLenDigit(x) == CHOOSE k \in 0..15 : x < 2^k /\ (k = 0 \/ 2^(k - 1) <= x)

\* the number of bits of a
BigBitLen(a) == IF a = <<>> THEN 0 ELSE 15 * (Len(a) - 1) + BitLenDigit(a[Len(a)])

\* the largest d <= guess with b * d <= r
RECURSIVE QuotDigitFrom(_, _, _)
QuotDigitFrom(r, b, d) ==
  IF BigCmp(BigMulSmall(b, d), r) > 0 THEN QuotDigitFrom(r, b, d - 1) ELSE d

\* r \div b, for r < b * Base and the leading digit of b at least Base / 2:
\* the quotient of the leading digits is at most 2 too large
QuotDigit(r, b) ==
  IF BigCmp(r, b) < 0 THEN 0
  ELSE LET n == Len(b)
           guess == (Digit(r, n + 1) * Base + Digit(r, n)) \div b[n]
       IN  QuotDigitFrom(r, b, IF guess > Base - 1 THEN Base - 1 ELSE guess)

\* one step of the long division: the quotient digits q so far, the partial
\* remainder r1 and its quotient digit d by b
BigDivPut(b, q, r1, d) == [q |-> <<d>> \o q, r |-> BigSub(r1, BigMulSmall(b, d))]

BigDivDigit(b, q, r1) == BigDivPut(b, q, r1, QuotDigit(r1, b))

\* the step that brings down the digit x after the higher digits gave up
BigDivStep(x, b, up) == BigDivDigit(b, up.q, BigTrim(<<x>> \o up.r))

\* long division of the digits hi down to lo of a by b, after the digits
\* above hi gave up: quotient digits and remainder.  The upper half of the
\* digits is brought down first, and the lower half from the one-element
\* set over what that left, which is how a step is said to be complete
\* before the next digit is brought down.
RECURSIVE BigDivFrom(_, _, _, _, _)
BigDivFrom(a, b, hi, lo, up) ==
  IF hi = lo THEN BigDivStep(a[hi], b, up)
  ELSE CHOOSE last \in {BigDivFrom(a, b, (hi + lo) \div 2, lo, upper) :
                          upper \in {BigDivFrom(a, b, hi, ((hi + lo) \div 2) + 1, up)}} : TRUE

\* the quotient without leading zeros, and whether the division left nothing
BigDivResult(res) == [q |-> BigTrim(res.q), exact |-> res.r = <<>>]

\* a \div b and whether b divides a, for a # 0 and the leading digit of b at
\* least Base / 2
BigDivDigits(a, b) ==
  CHOOSE d \in {BigDivResult(res) :
                  res \in {BigDivFrom(a, b, Len(a), 1, [q |-> <<>>, r |-> <<>>])}} : TRUE

\* a \div b after both are multiplied by 2^s, which makes the leading digit
\* of b at least Base / 2
BigDivNormal(a, b, s) ==
  CHOOSE d \in {BigDivDigits(x, y) : x \in {BigShl(a, s)}, y \in {BigShl(b, s)}} : TRUE

\* a \div b and whether b divides a, for a # 0 and b # 0
BigDiv(a, b) == BigDivNormal(a, b, 15 - BitLenDigit(b[Len(b)]))

(***************************************************************************)
(* Python floats: IEEE 754 binary64, rounding to nearest, ties to even     *)
(***************************************************************************)
\* 0.0 (and the int 0 where the source mixes it with floats)
FloatZero == [sign |-> 1, m |-> <<>>, e |-> 0]

\* the rounded mantissa m1 at exponent e: rounding up may have carried into
\* a 54th bit
RoundCarry(sign, m1, e) ==
  IF BigBitLen(m1) = 54
  THEN [sign |-> sign, m |-> BigShr(m1, 1), e |-> e + 1]
  ELSE [sign |-> sign, m |-> m1, e |-> e]

\* m has k bits too many and hi are its 53 leading bits: round up when the
\* first dropped bit is set and either more is set below it or hi is odd
RoundHigh(sign, m, e, sticky, k, hi) ==
  RoundCarry(sign,
             IF /\ BigBit(m, k - 1) = 1
                /\ (sticky \/ BigLowNonzero(m, k - 1) \/ BigBit(hi, 0) = 1)
             THEN BigAdd(hi, <<1>>)
             ELSE hi,
             e + k)

\* m has n bits: up to 53 bits are exact
RoundBits(sign, m, e, sticky, n) ==
  IF n <= 53 THEN [sign |-> sign, m |-> BigShl(m, 53 - n), e |-> e - (53 - n)]
  ELSE CHOOSE f \in {RoundHigh(sign, m, e, sticky, n - 53, hi) :
                       hi \in {BigShr(m, n - 53)}} : TRUE

\* the float nearest to sign * m * 2^e; sticky says that the exact value is
\* a little above m * 2^e (by less than 2^e)
Round53(sign, m, e, sticky) ==
  IF m = <<>> THEN FloatZero ELSE RoundBits(sign, m, e, sticky, BigBitLen(m))

\* float(n) of an int n, which is also how an int operand enters a float
\* operation
Float(n) ==
  Round53(IF n < 0 THEN 0 - 1 ELSE 1, BigOfInt(IF n < 0 THEN 0 - n ELSE n), 0, FALSE)

\* a * b
FloatMul(a, b) ==
  CHOOSE f \in {Round53(a.sign * b.sign, m, a.e + b.e, FALSE) : m \in {BigMul(a.m, b.m)}} : TRUE

\* the quotient d of the mantissas, rounded
FloatDivRound(sign, d, e) == Round53(sign, d.q, e, ~d.exact)

\* a / b, for b # 0: 55 more quotient bits than the mantissa leave a guard
\* bit below the rounding position
FloatDiv(a, b) ==
  IF a.m = <<>> THEN FloatZero
  ELSE CHOOSE f \in {FloatDivRound(a.sign * b.sign, d, a.e - b.e - 55) :
                       d \in {BigDiv(BigShl(a.m, 55), b.m)}} : TRUE

\* -1, 0, 1 as |a| < |b|, |a| = |b|, |a| > |b|
MagCmp(a, b) ==
  IF a.m = <<>> \/ b.m = <<>>
  THEN (IF a.m = b.m THEN 0 ELSE IF a.m = <<>> THEN 0 - 1 ELSE 1)
  ELSE IF a.e # b.e THEN (IF a.e < b.e THEN 0 - 1 ELSE 1) ELSE BigCmp(a.m, b.m)

\* big + small for |big| >= |small|, the exponent of big d above the other
FloatAddAligned(big, small, d) ==
  IF d > 64 THEN big
  ELSE CHOOSE f \in
         {Round53(big.sign,
                  IF big.sign = small.sign THEN BigAdd(shifted, small.m)
                  ELSE BigSub(shifted, small.m),
                  small.e, FALSE) : shifted \in {BigShl(big.m, d)}} : TRUE

\* a + b: the exact sum, rounded; an operand more than 64 binary places
\* below the other does not move it
FloatAdd(a, b) ==
  IF a.m = <<>> THEN b
  ELSE IF b.m = <<>> THEN a
  ELSE IF MagCmp(a, b) >= 0 THEN FloatAddAligned(a, b, a.e - b.e)
  ELSE FloatAddAligned(b, a, b.e - a.e)

\* a < b
FloatLT(a, b) ==
  IF a.sign # b.sign /\ a.m # <<>> /\ b.m # <<>> THEN a.sign < b.sign
  ELSE IF a.m = <<>> THEN b.m # <<>> /\ b.sign = 1
  ELSE IF b.m = <<>> THEN a.sign = 0 - 1
  ELSE IF a.sign = 1 THEN MagCmp(a, b) < 0 ELSE MagCmp(a, b) > 0

\* a <= b
FloatLE(a, b) == ~FloatLT(b, a)

\* int(a): truncation toward zero
FloatTrunc(a) ==
  IF a.m = <<>> THEN 0
  ELSE IF a.e >= 0 THEN a.sign * BigToInt(BigShl(a.m, a.e))
  ELSE a.sign * BigToInt(BigShr(a.m, 0 - a.e))

\* the float literal of n hundredths: 79.99 is Cents(7999).  A literal is the
\* double nearest to its decimal value, which is what a correctly rounded
\* division of the two integers gives.
Cents(n) == FloatDiv(Float(n), Float(100))

\* the literal 1.2 of the safety margin
SafetyFactor == FloatDiv(Float(12), Float(10))


\* sorted(seq, key=...): Python's sort is stable.  before[i, j] is the strict
\* order of the keys of seq[i] and seq[j]; elements with equal keys keep their
\* input order.
StableSort(seq, before) ==
  LET n == Len(seq)
      rank == [i \in 1..n |-> 1 + Cardinality({j \in 1..n :
                                   \/ before[j, i]
                                   \/ (~before[i, j] /\ j < i)})]
  IN  [k \in 1..n |-> seq[CHOOSE i \in 1..n : rank[i] = k]]

\* seq[:n]
Take(seq, n) == SubSeq(seq, 1, IF Len(seq) < n THEN Len(seq) ELSE n)


(***************************************************************************)
(* MockShopifyData: construction                                           *)
(***************************************************************************)
\* _generate_products: the fixed catalogue
products ==
  <<
    [product_id |-> 1, sku |-> "WBH-001", price |-> Cents(7999),
     product_title |->
       <<"W","i","r","e","l","e","s","s"," ","B","l","u","e","t","o","o","t","h"," ","H","e","a","d","p","h","o","n","e","s">>],
    [product_id |-> 2, sku |-> "OCT-001", price |-> Cents(2999),
     product_title |->
       <<"O","r","g","a","n","i","c"," ","C","o","t","t","o","n"," ","T","-","S","h","i","r","t">>],
    [product_id |-> 3, sku |-> "SSWB-001", price |-> Cents(2499),
     product_title |->
       <<"S","t","a","i","n","l","e","s","s"," ","S","t","e","e","l"," ","W","a","t","e","r"," ","B","o","t","t","l","e">>],
    [product_id |-> 4, sku |-> "YMP-001", price |-> Cents(4999),
     product_title |->
       <<"Y","o","g","a"," ","M","a","t"," ","P","r","o">>],
    [product_id |-> 5, sku |-> "SWS5-001", price |-> Cents(29999),
     product_title |->
       <<"S","m","a","r","t"," ","W","a","t","c","h"," ","S","e","r","i","e","s"," ","5">>],
    [product_id |-> 6, sku |-> "LLB-001", price |-> Cents(8999),
     product_title |->
       <<"L","e","a","t","h","e","r"," ","L","a","p","t","o","p"," ","B","a","g">>],
    [product_id |-> 7, sku |-> "PPC-001", price |-> Cents(3499),
     product_title |->
       <<"P","o","r","t","a","b","l","e"," ","P","h","o","n","e"," ","C","h","a","r","g","e","r">>],
    [product_id |-> 8, sku |-> "BS-001", price |-> Cents(5999),
     product_title |->
       <<"B","a","m","b","o","o"," ","S","u","n","g","l","a","s","s","e","s">>],
    [product_id |-> 9, sku |-> "CCMS-001", price |-> Cents(3999),
     product_title |->
       <<"C","e","r","a","m","i","c"," ","C","o","f","f","e","e"," ","M","u","g"," ","S","e","t">>],
    [product_id |-> 10, sku |-> "FRB-001", price |-> Cents(1999),
     product_title |->
       <<"F","i","t","n","e","s","s"," ","R","e","s","i","s","t","a","n","c","e"," ","B","a","n","d","s">>]
  >>

(***************************************************************************)
(* The random module.  _generate_orders is its only caller.  The numbers   *)
(* its generator yields are an input of the model: stream is their         *)
(* sequence, consumed in call order and taken from the start again when    *)
(* it runs out, and each call reduces the number it is handed to the range *)
(* it was asked for.                                                       *)
(***************************************************************************)
\* the k-th number the generator yields
Draw(stream, k) == stream[1 + ((k - 1) % Len(stream))]

\* random.randint(a, b), handed the number raw
randint(raw, a, b) == a + (raw % (b - a + 1))

\* random.choice(seq), handed the number raw
choice(raw, seq) == seq[1 + (raw % Len(seq))]

\* the order dict of _generate_orders: `day' days before the construction
MakeOrder(order_id, product, customer_id, quantity, day) ==
  [order_id       |-> order_id,
   product_id     |-> product.product_id,
   product_title  |-> product.product_title,
   customer_id    |-> customer_id,
   customer_email |-> <<"customer", customer_id, "@email.com">>,
   customer_name  |-> <<"Customer ", customer_id>>,
   quantity       |-> quantity,
   total_price    |-> FloatMul(product.price, Float(quantity)),
   created_at     |-> 0 - day * TicksPerDay]

\* one pass of the inner loop of _generate_orders on day `day': it draws a
\* product of the catalogue (self.products), a customer and a quantity and
\* appends the order.  generated is the orders appended so far and the
\* number of draws made so far.
GenerateOrder(catalogue, stream, day, generated) ==
  [orders |-> Append(generated.orders,
                MakeOrder(Len(generated.orders) + 1,
                          choice(Draw(stream, generated.drawn + 1), catalogue),
                          randint(Draw(stream, generated.drawn + 2), 1, NumCustomers),
                          randint(Draw(stream, generated.drawn + 3), 1, MaxQuantity),
                          day)),
   drawn  |-> generated.drawn + 3]

\* n passes of the inner loop of _generate_orders on day `day', n >= 1: the
\* first n \div 2 of them, then the others from what those leave
RECURSIVE GenerateOrdersOfDay(_, _, _, _, _)
GenerateOrdersOfDay(catalogue, stream, day, n, generated) ==
  IF n = 1 THEN GenerateOrder(catalogue, stream, day, generated)
  ELSE CHOOSE last \in {GenerateOrdersOfDay(catalogue, stream, day, n - (n \div 2), first) :
                          first \in {GenerateOrdersOfDay(catalogue, stream, day, n \div 2,
                                                         generated)}} : TRUE

\* the passes of the outer loop of _generate_orders for the days lo..hi, in
\* order: the days up to the middle one first, the others from what those
\* leave
RECURSIVE GenerateDays(_, _, _, _, _)
GenerateDays(catalogue, stream, lo, hi, generated) ==
  IF lo < hi
  THEN CHOOSE last \in {GenerateDays(catalogue, stream, ((lo + hi) \div 2) + 1, hi, first) :
                          first \in {GenerateDays(catalogue, stream, lo, (lo + hi) \div 2,
                                                  generated)}} : TRUE
  ELSE GenerateOrdersOfDay(catalogue, stream, lo,
         IF lo < RecentDays
         THEN randint(Draw(stream, generated.drawn + 1), MinRecentPerDay, MaxRecentPerDay)
         ELSE randint(Draw(stream, generated.drawn + 1), MinOlderPerDay, MaxOlderPerDay),
         [orders |-> generated.orders, drawn |-> generated.drawn + 1])

\* _generate_orders: for day in range(90), on self.products (built before
\* the orders) and with the draws of stream
_generate_orders(stream) ==
  CHOOSE orders_made \in
    {GenerateDays(catalogue, stream, 0, HistoryDays - 1, [orders |-> <<>>, drawn |-> 0]).orders :
       catalogue \in {products}} : TRUE

\* _generate_inventory: inventory_levels, one per product of the catalogue
inventory_levels == <<45, 15, 78, 22, 12, 34, 56, 28, 41, 67>>

_generate_inventory ==
  [i \in 1..Len(products) |->
     [product_id    |-> products[i].product_id,
      product_title |-> products[i].product_title,
      sku           |-> products[i].sku,
      quantity      |-> inventory_levels[i]]]

(***************************************************************************)
(* MockShopifyData: the aggregation operations.  Each takes the store's    *)
(* orders (and inventory) and the clock reading `now'.  A loop over the    *)
(* orders lo..hi is written as the loop over the first half followed by    *)
(* the loop over the second half on what the first leaves: the same passes *)
(* in the same order, which is the order the float sums round in.  The     *)
(* second loop is chosen from the one-element set over what the first      *)
(* left, which is how the one is said to end before the other begins.      *)
(* The steps of an operation's body are chained the same way: the value    *)
(* of a step is the one element of the set the next step ranges over.      *)
(***************************************************************************)
\* days = time_period.get('value', default) if time_period else default
WindowDays(time_period, default) ==
  IF Truthy(time_period) THEN Get(time_period, "value", default) ELSE default

\* the orders with datetime.fromisoformat(o['created_at']) >= cutoff_date,
\* cutoff_date = datetime.utcnow() - timedelta(days=days).  In the
\* operations self_orders and self_inventory are self.orders and
\* self.inventory, and datetime_now is the reading of datetime.utcnow().
RecentOrders(self_orders, datetime_now, days) ==
  SelectSeq(self_orders, LAMBDA o : o.created_at >= datetime_now - days * TicksPerDay)

FilterEntitiesMutant(recent_orders, entities) ==
  LET matching == SelectSeq(recent_orders, LAMBDA o : EntityMatch(entities, o.product_title))
  IN  IF Truthy(entities) /\ matching # <<>> THEN matching ELSE recent_orders

\* if entities: keep the orders whose product title contains some entity
FilterEntities(recent_orders, entities) ==
  IF Truthy(entities)
  THEN SelectSeq(recent_orders, LAMBDA o : EntityMatch(entities, o.product_title))
  ELSE recent_orders

\* position in rows of the row whose field key is v, 0 when there is none
IndexOf(rows, key, v) ==
  IF \E i \in 1..Len(rows) : rows[i][key] = v
  THEN CHOOSE i \in 1..Len(rows) : rows[i][key] = v
  ELSE 0

\* one pass of the aggregation loop of get_top_products; product_sales is a
\* dict, which keeps its keys in the order of their first insertion
ProductSalesPass(order, product_sales) ==
  LET at == IndexOf(product_sales, "product_id", order.product_id)
      fresh == [product_id    |-> order.product_id,
                product_title |-> order.product_title,
                total_sold    |-> 0,
                revenue       |-> FloatZero]
      sales == IF at = 0 THEN Append(product_sales, fresh) ELSE product_sales
      pos == IF at = 0 THEN Len(sales) ELSE at
  IN  [sales EXCEPT ![pos].total_sold = @ + order.quantity,
                    ![pos].revenue = FloatAdd(@, order.total_price)]

\* the aggregation loop of get_top_products over recent_orders[lo..hi]
RECURSIVE ProductSales(_, _, _, _)
ProductSales(recent_orders, lo, hi, product_sales) ==
  IF lo < hi
  THEN CHOOSE last \in {ProductSales(recent_orders, ((lo + hi) \div 2) + 1, hi, first) :
                          first \in {ProductSales(recent_orders, lo, (lo + hi) \div 2, product_sales)}} : TRUE
  ELSE IF lo = hi THEN ProductSalesPass(recent_orders[lo], product_sales)
  ELSE product_sales

TopProductsSortedMutant(product_sales) ==
  StableSort(product_sales,
    [i \in 1..Len(product_sales), j \in 1..Len(product_sales) |->
       product_sales[i].total_sold < product_sales[j].total_sold])

TopProductsSortedTies(product_sales) ==
  StableSort(product_sales,
    [i \in 1..Len(product_sales), j \in 1..Len(product_sales) |->
       \/ product_sales[i].total_sold > product_sales[j].total_sold
       \/ (product_sales[i].total_sold = product_sales[j].total_sold /\ i > j)])

\* sorted(product_sales.values(), key=lambda x: x['total_sold'], reverse=True)
TopProductsSorted(product_sales) ==
  StableSort(product_sales,
    [i \in 1..Len(product_sales), j \in 1..Len(product_sales) |->
       product_sales[i].total_sold > product_sales[j].total_sold])

get_top_products(self_orders, datetime_now, time_period, entities) ==
  CHOOSE result \in
    {Take(TopProductsSorted(product_sales), TopProductsLimit) :
       product_sales \in
         {ProductSales(recent_orders, 1, Len(recent_orders), <<>>) :
            recent_orders \in
              {FilterEntities(RecentOrders(self_orders, datetime_now,
                                WindowDays(time_period, DefaultDaysShort)), entities)}}} : TRUE

\* one pass of the aggregation loop of get_sales_velocity
VelocitySalesPass(order, product_sales) ==
  LET at == IndexOf(product_sales, "product_id", order.product_id)
      fresh == [product_id    |-> order.product_id,
                product_title |-> order.product_title,
                total_sold    |-> 0]
      sales == IF at = 0 THEN Append(product_sales, fresh) ELSE product_sales
      pos == IF at = 0 THEN Len(sales) ELSE at
  IN  [sales EXCEPT ![pos].total_sold = @ + order.quantity]

\* the aggregation loop of get_sales_velocity over recent_orders[lo..hi]
RECURSIVE VelocitySales(_, _, _, _)
VelocitySales(recent_orders, lo, hi, product_sales) ==
  IF lo < hi
  THEN CHOOSE last \in {VelocitySales(recent_orders, ((lo + hi) \div 2) + 1, hi, first) :
                          first \in {VelocitySales(recent_orders, lo, (lo + hi) \div 2, product_sales)}} : TRUE
  ELSE IF lo = hi THEN VelocitySalesPass(recent_orders[lo], product_sales)
  ELSE product_sales

\* product['avg_daily_sales'] = product['total_sold'] / days, for days # 0
WithAvgDailySales(product, days) ==
  [product_id      |-> product.product_id,
   product_title   |-> product.product_title,
   total_sold      |-> product.total_sold,
   avg_daily_sales |-> FloatDiv(Float(product.total_sold), Float(days))]

\* A call either returns rows or raises.
Returned(rows) == [raised |-> "none", rows |-> rows]
Raised(exception) == [raised |-> exception, rows |-> <<>>]

\* get_sales_velocity: the division runs once per aggregated product, so it
\* raises ZeroDivisionError when days = 0 and some order is in the window
\* the second loop of get_sales_velocity, over the aggregated products
VelocityRows(product_sales, days) ==
  IF days = 0 /\ product_sales # <<>>
  THEN Raised("ZeroDivisionError")
  ELSE Returned([i \in 1..Len(product_sales) |-> WithAvgDailySales(product_sales[i], days)])

get_sales_velocity(self_orders, datetime_now, time_period, entities) ==
  CHOOSE result \in
    {VelocityRows(product_sales, WindowDays(time_period, DefaultDaysMonth)) :
       product_sales \in
         {VelocitySales(recent_orders, 1, Len(recent_orders), <<>>) :
            recent_orders \in
              {FilterEntities(RecentOrders(self_orders, datetime_now,
                                WindowDays(time_period, DefaultDaysMonth)), entities)}}} : TRUE

\* days_remaining = current_stock / daily_sales, for daily_sales # 0: an int
\* divided by a float
DaysRemaining(current_stock, daily_sales) == FloatDiv(Float(current_stock), daily_sales)

\* the row get_stockout_risks appends for a velocity row and its inventory row
RiskRow(vel, inv) ==
  [product_id      |-> vel.product_id,
   product_title   |-> vel.product_title,
   current_stock   |-> inv.quantity,
   avg_daily_sales |-> vel.avg_daily_sales]

AtRiskMutant(vel, self_inventory) ==
  LET at == IndexOf(self_inventory, "product_id", vel.product_id)
  IN  /\ at # 0
      /\ FloatLE(FloatZero, vel.avg_daily_sales)

\* whether get_stockout_risks keeps the velocity row vel: it has an inventory
\* row, daily_sales > 0 and days_remaining <= 7
AtRisk(vel, self_inventory) ==
  LET at == IndexOf(self_inventory, "product_id", vel.product_id)
  IN  /\ at # 0
      /\ FloatLT(FloatZero, vel.avg_daily_sales)
      /\ FloatLE(DaysRemaining(self_inventory[at].quantity, vel.avg_daily_sales),
                 Float(StockoutDays))

RisksSortedMutant(at_risk) ==
  LET key == [i \in 1..Len(at_risk) |->
                DaysRemaining(at_risk[i].current_stock, at_risk[i].avg_daily_sales)]
  IN  StableSort(at_risk,
        [i \in 1..Len(at_risk), j \in 1..Len(at_risk) |-> FloatLT(key[j], key[i])])

\* sorted(at_risk, key=lambda x: x['current_stock'] / x['avg_daily_sales']):
\* the key of each row is computed once
RisksSorted(at_risk) ==
  LET key == [i \in 1..Len(at_risk) |->
                DaysRemaining(at_risk[i].current_stock, at_risk[i].avg_daily_sales)]
  IN  StableSort(at_risk,
        [i \in 1..Len(at_risk), j \in 1..Len(at_risk) |-> FloatLT(key[i], key[j])])

get_stockout_risksMutant(self_orders, self_inventory, datetime_now, time_period) ==
  CHOOSE result \in
    {LET kept == SelectSeq(velocity, LAMBDA vel : AtRisk(vel, self_inventory))
         at_risk == [i \in 1..Len(kept) |->
                       RiskRow(kept[i],
                         self_inventory[IndexOf(self_inventory, "product_id", kept[i].product_id)])]
     IN  RisksSorted(at_risk) :
       velocity \in {get_sales_velocity(self_orders, datetime_now,
                       [value |-> WindowDays(time_period, StockoutDays), unit |-> "days"],
                       <<>>).rows}} : TRUE

\* get_stockout_risks: time_period is not read; the velocity is that of the
\* fixed window {'value': 7, 'unit': 'days'} with no entities
get_stockout_risks(self_orders, self_inventory, datetime_now, time_period) ==
  CHOOSE result \in
    {LET kept == SelectSeq(velocity, LAMBDA vel : AtRisk(vel, self_inventory))
         at_risk == [i \in 1..Len(kept) |->
                       RiskRow(kept[i],
                         self_inventory[IndexOf(self_inventory, "product_id", kept[i].product_id)])]
     IN  RisksSorted(at_risk) :
       velocity \in {get_sales_velocity(self_orders, datetime_now,
                       [value |-> StockoutDays, unit |-> "days"], <<>>).rows}} : TRUE

\* one pass of the aggregation loop of get_repeat_customers and
\* get_top_customers
CustomerOrdersPass(order, customer_orders) ==
  LET at == IndexOf(customer_orders, "customer_id", order.customer_id)
      fresh == [customer_id    |-> order.customer_id,
                customer_email |-> order.customer_email,
                customer_name  |-> order.customer_name,
                order_count    |-> 0,
                total_spent    |-> FloatZero]
      seen == IF at = 0 THEN Append(customer_orders, fresh) ELSE customer_orders
      pos == IF at = 0 THEN Len(seen) ELSE at
  IN  [seen EXCEPT ![pos].order_count = @ + 1,
                   ![pos].total_spent = FloatAdd(@, order.total_price)]

\* the aggregation loop of get_repeat_customers and get_top_customers over
\* recent_orders[lo..hi]
RECURSIVE CustomerOrders(_, _, _, _)
CustomerOrders(recent_orders, lo, hi, customer_orders) ==
  IF lo < hi
  THEN CHOOSE last \in {CustomerOrders(recent_orders, ((lo + hi) \div 2) + 1, hi, first) :
                          first \in {CustomerOrders(recent_orders, lo, (lo + hi) \div 2, customer_orders)}} : TRUE
  ELSE IF lo = hi THEN CustomerOrdersPass(recent_orders[lo], customer_orders)
  ELSE customer_orders

IsRepeatMutant(c) == c.order_count >= 1

\* c['order_count'] > 1
IsRepeat(c) == c.order_count > 1

get_repeat_customers(self_orders, datetime_now, time_period) ==
  CHOOSE result \in
    {LET repeat == SelectSeq(customer_orders, IsRepeat)
     IN  StableSort(repeat,
           [i \in 1..Len(repeat), j \in 1..Len(repeat) |->
              repeat[i].order_count > repeat[j].order_count]) :
       customer_orders \in
         {CustomerOrders(recent_orders, 1, Len(recent_orders), <<>>) :
            recent_orders \in
              {RecentOrders(self_orders, datetime_now, WindowDays(time_period, DefaultDaysQuarter))}}} : TRUE

\* datetime.fromisoformat(order['created_at']).date(): every order of one
\* generated day carries the same instant, and days are 24 hours apart
DateOf(created_at) == created_at \div TicksPerDay

\* one pass of the grouping loop of get_sales_summary
DailySalesPass(order, daily_sales) ==
  LET date == DateOf(order.created_at)
      at == IndexOf(daily_sales, "date", date)
      fresh == [date |-> date, order_count |-> 0, total_revenue |-> FloatZero]
      seen == IF at = 0 THEN Append(daily_sales, fresh) ELSE daily_sales
      pos == IF at = 0 THEN Len(seen) ELSE at
  IN  [seen EXCEPT ![pos].order_count = @ + 1,
                   ![pos].total_revenue = FloatAdd(@, order.total_price)]

\* the grouping loop of get_sales_summary over recent_orders[lo..hi]
RECURSIVE DailySales(_, _, _, _)
DailySales(recent_orders, lo, hi, daily_sales) ==
  IF lo < hi
  THEN CHOOSE last \in {DailySales(recent_orders, ((lo + hi) \div 2) + 1, hi, first) :
                          first \in {DailySales(recent_orders, lo, (lo + hi) \div 2, daily_sales)}} : TRUE
  ELSE IF lo = hi THEN DailySalesPass(recent_orders[lo], daily_sales)
  ELSE daily_sales

get_sales_summary(self_orders, datetime_now, time_period) ==
  CHOOSE result \in
    {StableSort(daily_sales,
       [i \in 1..Len(daily_sales), j \in 1..Len(daily_sales) |->
          daily_sales[i].date > daily_sales[j].date]) :
       daily_sales \in
         {DailySales(recent_orders, 1, Len(recent_orders), <<>>) :
            recent_orders \in
              {RecentOrders(self_orders, datetime_now, WindowDays(time_period, DefaultDaysShort))}}} : TRUE

get_inventory_levels(self_inventory, entities) ==
  IF Truthy(entities)
  THEN SelectSeq(self_inventory, LAMBDA i : EntityMatch(entities, i.product_title))
  ELSE self_inventory

\* sorted(..., key=lambda x: x['total_spent'], reverse=True)[:10]: the keys
\* are the float sums
get_top_customers(self_orders, datetime_now, time_period) ==
  CHOOSE result \in
    {Take(StableSort(customer_spending,
            [i \in 1..Len(customer_spending), j \in 1..Len(customer_spending) |->
               FloatLT(customer_spending[j].total_spent,
                       customer_spending[i].total_spent)]),
          TopCustomersLimit) :
       customer_spending \in
         {CustomerOrders(recent_orders, 1, Len(recent_orders), <<>>) :
            recent_orders \in
              {RecentOrders(self_orders, datetime_now, WindowDays(time_period, DefaultDaysMonth))}}} : TRUE

(***************************************************************************)
(* ShopifyClient._execute_mock_query: the dispatch on category and metrics *)
(***************************************************************************)
_execute_mock_query(self_orders, self_inventory, datetime_now, intent) ==
  LET category == Get(intent, "category", "general")
      metrics == Get(intent, "metrics", {})
      time_period == Get(intent, "time_period", <<>>)
      entities == Get(intent, "entities", <<>>)
  IN  IF category = "sales" /\ "top_products" \in metrics
        THEN Returned(get_top_products(self_orders, datetime_now, time_period, entities))
      ELSE IF category = "inventory" /\ "reorder_quantity" \in metrics
        THEN get_sales_velocity(self_orders, datetime_now, time_period, entities)
      ELSE IF category = "inventory" /\ "stockout_prediction" \in metrics
        THEN Returned(get_stockout_risks(self_orders, self_inventory, datetime_now, time_period))
      ELSE IF category = "customers" /\ "repeat_customers" \in metrics
        THEN Returned(get_repeat_customers(self_orders, datetime_now, time_period))
      ELSE IF category = "sales"
        THEN Returned(get_sales_summary(self_orders, datetime_now, time_period))
      ELSE IF category = "inventory"
        THEN Returned(get_inventory_levels(self_inventory, entities))
      ELSE IF category = "customers"
        THEN Returned(get_top_customers(self_orders, datetime_now, time_period))
      ELSE Returned(get_top_products(self_orders, datetime_now, time_period, entities))


(***************************************************************************)
(* AnswerFormatter.  An answer is kept as the template the source fills    *)
(* and the values it fills in, not as the rendered text.                   *)
(***************************************************************************)
\* _format_time_period: the phrase for the window
_format_time_period(time_period) ==
  IF ~Truthy(time_period) THEN <<"recently">>
  ELSE
    LET value == Get(time_period, "value", 0)
        unit == Get(time_period, "unit", "days")
        is_future == Get(time_period, "future", FALSE)
    IN  IF is_future
        THEN IF value = 7 THEN <<"next week">>
             ELSE IF value = 30 THEN <<"next month">>
             ELSE <<"in the next", value, unit>>
        ELSE IF value = 1 /\ unit = "days" THEN <<"yesterday">>
             ELSE IF value = 7 THEN <<"last week">>
             ELSE IF value = 30 THEN <<"last month">>
             ELSE <<"in the last", value, unit>>

_calculate_confidenceMutant(raw_data, time_period) ==
  IF raw_data = <<>> THEN "low"
  ELSE
    LET data_count == Len(raw_data)
        days == WindowDays(time_period, DefaultDaysShort)
    IN  IF data_count > 5 /\ days >= 30 THEN "high"
        ELSE IF data_count >= 3 /\ days > 7 THEN "medium"
        ELSE "low"

_calculate_confidenceDip(raw_data, time_period) ==
  IF raw_data = <<>> THEN "low"
  ELSE
    LET data_count == Len(raw_data)
        days == WindowDays(time_period, DefaultDaysShort)
    IN  IF data_count = 5 /\ days >= 30 THEN "high"
        ELSE IF data_count >= 3 /\ days >= 7 /\ days <= 30 THEN "medium"
        ELSE "low"

\* _calculate_confidence: the grade from the row count and the window length
_calculate_confidence(raw_data, time_period) ==
  IF raw_data = <<>> THEN "low"
  ELSE
    LET data_count == Len(raw_data)
        days == WindowDays(time_period, DefaultDaysShort)
    IN  IF data_count >= 5 /\ days >= 30 THEN "high"
        ELSE IF data_count >= 3 /\ days >= 7 THEN "medium"
        ELSE "low"

\* total += item.get(key, 0) for the rows lo..hi in order, the values floats:
\* the rows lo..mid are added to total first, then the rows mid+1..hi
RECURSIVE FloatSumOf(_, _, _, _, _)
FloatSumOf(rows, key, lo, hi, total) ==
  IF lo < hi
  THEN CHOOSE last \in {FloatSumOf(rows, key, ((lo + hi) \div 2) + 1, hi, first) :
                          first \in {FloatSumOf(rows, key, lo, (lo + hi) \div 2, total)}} : TRUE
  ELSE IF lo = hi THEN FloatAdd(total, Get(rows[lo], key, FloatZero))
  ELSE total

\* sum(item.get(key, 0) for item in rows), and the += loop from 0, on floats:
\* one rounded addition per row, from the first row to the last, which is
\* what the += loops do and what sum() does up to CPython 3.11 (from 3.12 on
\* sum() carries a compensation term and may differ in the last bit)
SumOf(rows, key) == FloatSumOf(rows, key, 1, Len(rows), FloatZero)

NoDataMutant(template) == [answer |-> [template |-> template], confidence |-> "medium"]

\* the return of a formatter that found raw_data empty
NoData(template) == [answer |-> [template |-> template], confidence |-> "low"]

_format_sales_answer(intent_result, raw_data) ==
  LET metrics == Get(intent_result, "metrics", {})
      time_period == Get(intent_result, "time_period", <<>>)
  IN  IF raw_data = <<>> THEN NoData("No sales data found for the specified period")
      ELSE IF "top_products" \in metrics THEN
        LET shown == Take(raw_data, 5)
        IN  [answer |->
               [template |-> "Your top selling products",
                count    |-> Len(shown),
                period   |-> IF Truthy(time_period)
                             THEN _format_time_period(time_period) ELSE <<>>,
                lines    |-> [i \in 1..Len(shown) |->
                                [product_name |-> Get(shown[i], "product_title", "Unknown Product"),
                                 quantity     |-> Get(shown[i], "total_sold", 0)]],
                total_revenue |-> SumOf(shown, "revenue")],
             confidence |-> _calculate_confidence(raw_data, time_period)]
      ELSE
        CHOOSE result \in
          {LET total_orders == Len(raw_data)
           IN  [answer |->
                  [template |-> "Sales summary",
                   period   |-> _format_time_period(time_period),
                   total_orders  |-> total_orders,
                   total_revenue |-> total_revenue,
                   average_order_value |-> FloatDiv(total_revenue, Float(total_orders))],
                confidence |-> IF total_orders > 10 THEN "high" ELSE "medium"] :
             total_revenue \in {SumOf(raw_data, "total_revenue")}} : TRUE

\* daily_rate = total_sold / days if days > 0 else 0
DailyRate(total_sold, days) ==
  IF days > 0 THEN FloatDiv(Float(total_sold), Float(days)) ELSE FloatZero

ReorderQuantityMutant(total_sold, days) ==
  CHOOSE recommended_qty \in
    {FloatTrunc(FloatMul(daily_rate, Float(BufferDays))) :
       daily_rate \in {DailyRate(total_sold, days)}} : TRUE

\* recommended_qty = int(daily_rate * future_days * 1.2): the product with
\* future_days is rounded before the product with 1.2 is taken
ReorderQuantity(total_sold, days) ==
  CHOOSE recommended_qty \in
    {FloatTrunc(FloatMul(buffered, margin)) :
       buffered \in {FloatMul(daily_rate, Float(BufferDays)) :
                       daily_rate \in {DailyRate(total_sold, days)}},
       margin \in {SafetyFactor}} : TRUE

\* the reorder_quantity branch of _format_inventory_answer
ReorderAnswer(intent_result, raw_data) ==
  LET entities == Get(intent_result, "entities", <<>>)
      item == raw_data[1]
      total_sold == Get(item, "total_sold", 0)
      days == Get(Get(intent_result, "time_period", <<>>), "value", DefaultDaysMonth)
  IN  [answer |->
         [template |-> "Order at least",
          days          |-> days,
          product_name  |-> IF Truthy(entities) THEN entities[1]
                            ELSE Get(item, "product_title", "the product"),
          daily_rate    |-> DailyRate(total_sold, days),
          total_sold    |-> total_sold,
          recommended_qty |-> ReorderQuantity(total_sold, days)],
       confidence |-> IF days >= 30 THEN "high" ELSE "medium"]

\* the entry of at_risk built from one row
RiskEntry(item) ==
  LET current_stock == Get(item, "current_stock", 0)
      avg_daily == Get(item, "avg_daily_sales", FloatZero)
  IN  [name  |-> Get(item, "product_title", "Unknown"),
       stock |-> current_stock,
       daily |-> avg_daily,
       days  |-> DaysRemaining(current_stock, avg_daily)]

\* the rows the stockout loop appends to at_risk: avg_daily > 0 and
\* days_remaining <= 7
IsRiskItem(item) ==
  LET avg_daily == Get(item, "avg_daily_sales", FloatZero)
  IN  /\ FloatLT(FloatZero, avg_daily)
      /\ FloatLE(DaysRemaining(Get(item, "current_stock", 0), avg_daily), Float(7))

IsHighRiskMutant(p) == FloatLT(p.days, Float(HighRiskDays))

\* p['days'] <= 5
IsHighRisk(p) == FloatLE(p.days, Float(HighRiskDays))

\* 5 < p['days'] <= 7
IsMediumRisk(p) ==
  FloatLT(Float(HighRiskDays), p.days) /\ FloatLE(p.days, Float(7))

\* the stockout_prediction branch of _format_inventory_answer
StockoutAnswer(raw_data) ==
  LET risky == SelectSeq(raw_data, IsRiskItem)
      at_risk == [i \in 1..Len(risky) |-> RiskEntry(risky[i])]
      high_risk == SelectSeq(at_risk, IsHighRisk)
      medium_risk == SelectSeq(at_risk, IsMediumRisk)
  IN  IF at_risk = <<>>
      THEN [answer |-> [template |-> "Good news! None of your products are at risk of stockout"],
            confidence |-> "high"]
      ELSE [answer |->
              [template    |-> "Products at risk of stockout within 7 days",
               count       |-> Len(at_risk),
               high_risk   |-> high_risk,
               medium_risk |-> medium_risk,
               reorder_first |-> IF high_risk # <<>> THEN high_risk[1].name
                                 ELSE at_risk[1].name],
            confidence |-> "medium"]

_format_inventory_answer(intent_result, raw_data) ==
  LET metrics == Get(intent_result, "metrics", {})
  IN  IF raw_data = <<>> THEN NoData("No inventory data found for the specified products")
      ELSE IF "reorder_quantity" \in metrics THEN ReorderAnswer(intent_result, raw_data)
      ELSE IF "stockout_prediction" \in metrics THEN StockoutAnswer(raw_data)
      ELSE [answer |-> [template |-> "Found products in inventory", count |-> Len(raw_data)],
            confidence |-> "high"]

_format_customer_answer(intent_result, raw_data) ==
  LET metrics == Get(intent_result, "metrics", {})
      time_period == Get(intent_result, "time_period", <<>>)
  IN  IF raw_data = <<>> THEN NoData("No customer data found for the specified period")
      ELSE IF "repeat_customers" \in metrics THEN
        LET shown == Take(raw_data, 5)
        IN  [answer |->
               [template |-> "You had repeat customers",
                total_repeat |-> Len(raw_data),
                period |-> _format_time_period(time_period),
                lines  |-> [i \in 1..Len(shown) |->
                              [name  |-> Get(shown[i], "customer_name",
                                             Get(shown[i], "customer_email", "Unknown")),
                               email |-> Get(shown[i], "customer_email", ""),
                               order_count |-> Get(shown[i], "order_count", 0),
                               total_spent |-> Get(shown[i], "total_spent", FloatZero)]]],
             confidence |-> "high"]
      ELSE
        LET top_customers == Take(raw_data, 10)
        IN  [answer |->
               [template |-> "Top customers by total spending",
                count |-> Len(top_customers),
                lines |-> [i \in 1..Len(top_customers) |->
                             [email  |-> Get(top_customers[i], "customer_email", "Unknown"),
                              spent  |-> Get(top_customers[i], "total_spent", FloatZero),
                              orders |-> Get(top_customers[i], "order_count", 0)]]],
             confidence |-> "high"]

_format_general_answer(intent_result, raw_data) ==
  IF raw_data = <<>> THEN NoData("No data found for your query")
  ELSE
    LET titled == SelectSeq(Take(raw_data, 5), LAMBDA item : "product_title" \in DOMAIN item)
    IN  [answer |->
           [template |-> "Found results for your query",
            count |-> Len(raw_data),
            lines |-> [i \in 1..Len(titled) |->
                         [product_title  |-> titled[i].product_title,
                          total_quantity |-> Get(titled[i], "total_quantity", "absent"),
                          total_revenue  |-> Get(titled[i], "total_revenue", "absent")]]],
         confidence |-> "medium"]

\* format, up to the enhancement: the dispatch on intent_result['category']
Templated(intent_result, raw_data) ==
  LET category == intent_result.category
  IN  IF category = "sales" THEN _format_sales_answer(intent_result, raw_data)
      ELSE IF category = "inventory" THEN _format_inventory_answer(intent_result, raw_data)
      ELSE IF category = "customers" THEN _format_customer_answer(intent_result, raw_data)
      ELSE _format_general_answer(intent_result, raw_data)

\* how `await self.llm_client.enhance_answer(...)' can end: it returns a
\* text; it raises an Exception (an error of the client, a TimeoutError);
\* or it raises what is no Exception, asyncio.CancelledError or another
\* BaseException, which `except Exception' does not catch
EnhancementOutcomes == {"enhanced", "raised", "escaped"}

\* format, from the enhancement on, when it returns: the text enhance_answer
\* returned replaces the answer, or the Exception it raised is logged and
\* dropped
Enhanced(result, outcome) ==
  IF outcome = "enhanced"
  THEN [result EXCEPT !.answer = [template |-> "enhanced", draft |-> result.answer]]
  ELSE result

(***************************************************************************)
(* Inputs: the draws of the random module, the backends constructed from   *)
(* them, order record sets and inventory snapshots given to the            *)
(* aggregation operations, and the intents a classifier may return         *)
(***************************************************************************)
\* the numbers the random module's generator yields during one construction
Stream(s) == [i \in 1..StreamLen |-> (7 * i * i + 10 * i + 5 * s * i + 8 * s) % 43]

Streams == { Stream(s) : s \in 0..MaxStream }

\* the order histories MockShopifyData.__init__ constructs on those draws
MockStores == { _generate_orders(stream) : stream \in Streams }

\* an order record set that is not a construction of the mock backend:
\* SampleSize orders of the catalogue's products, two to the day
SampleOrders(seed) ==
  LET catalogue == products
  IN  [k \in 1..SampleSize |->
         MakeOrder(k, catalogue[1 + (((seed + 3) * k) % Len(catalogue))],
                   1 + ((k * k + seed) % SampleCustomers), 1 + ((k + seed) % MaxQuantity),
                   (k - 1) \div 2)]

\* the quantities of the orders of a record set on which, in the last 7
\* days, product 6 sells 17 units (six orders) and product 2 sells 7 (three
\* orders): what the inventory halved once holds of them.  Both stocks last
\* 7 days in exact arithmetic; as floats 17 / (17 / 7) is just above 7 and
\* 7 / (7 / 7) is 7.
BoundaryQuantities == <<3, 3, 3, 3, 3, 2, 3, 3, 1>>

BoundaryOrders ==
  LET catalogue == products
  IN  [k \in 1..Len(BoundaryQuantities) |->
         MakeOrder(k, catalogue[IF k <= 6 THEN 6 ELSE 2], 1 + (k % SampleCustomers),
                   BoundaryQuantities[k], (k - 1) \div 2)]

\* the order record sets the operations are also applied to: the empty one,
\* the samples and the one at the 7-day boundary
OrderRecordSets ==
  { <<>>, BoundaryOrders } \cup { SampleOrders(seed) : seed \in 0..MaxSample }

\* the inventory with every level divided by 2^k
Depleted(self_inventory, k) ==
  [i \in DOMAIN self_inventory |-> [self_inventory[i] EXCEPT !.quantity = @ \div 2^k]]

\* the inventory snapshots the operations are applied to with those record
\* sets: the one _generate_inventory builds (k = 0) and depleted ones
InventorySnapshots == { Depleted(_generate_inventory, k) : k \in 0..MaxDepletion }

Categories == {"sales", "inventory", "customers", "general"}

MetricSets ==
  { {}, {"top_products"}, {"reorder_quantity"}, {"stockout_prediction"},
    {"repeat_customers"}, {"reorder_quantity", "stockout_prediction"} }

\* entity lists: none, one that matches "Yoga Mat Pro", one that matches no
\* title, two that match "Smart Watch Series 5" and "... Water Bottle"
EntityLists ==
  { <<>>,
    << <<"y","o","g","a">> >>,
    << <<"x","y","z">> >>,
    << <<"W","A","T","C","H">>, <<"b","o","t","t","l","e">> >> }

WindowValues == {0, 7, 30, 90}

TimePeriods ==
  { [value |-> v, unit |-> "days", future |-> FALSE] : v \in WindowValues }

\* an intent with no time_period key, or with one of the windows
IntentsOver(entity_lists, time_periods) ==
  { [category |-> c, metrics |-> m, entities |-> e] :
      c \in Categories, m \in MetricSets, e \in entity_lists }
  \cup
  { [category |-> c, metrics |-> m, entities |-> e, time_period |-> tp] :
      c \in Categories, m \in MetricSets, e \in entity_lists, tp \in time_periods }

\* further windows passed with a stockout question: the quarter, and one in
\* another unit and direction
StockoutWindows ==
  { [value |-> DefaultDaysQuarter, unit |-> "days", future |-> FALSE],
    [value |-> 2, unit |-> "weeks", future |-> TRUE] }

\* the windows of the questions put to the stores: up to a month.  The
\* quarter is the window get_repeat_customers takes when none is given.
QueryWindows == { tp \in TimePeriods : tp.value <= DefaultDaysMonth }

Intents ==
  IntentsOver(EntityLists, QueryWindows)
    \cup { [category |-> "inventory", metrics |-> {"stockout_prediction"},
            entities |-> <<>>, time_period |-> tp] : tp \in StockoutWindows }

(***************************************************************************)
(* State                                                                   *)
(***************************************************************************)
VARIABLES
  orders,         \* MockShopifyData.orders
  inventory,      \* MockShopifyData.inventory
  now,            \* the clock reading of the last query, ticks after construction
  intent_result,  \* the classified intent of the request
  raw_data,       \* the rows execute_query returned
  raised,         \* the exception execute_query raised, "none" when it returned
  templated,      \* the result of the category formatter, before enhancement
  answer_result,  \* the result of AnswerFormatter.format
  enhancement,    \* how the enhance_answer call of format ended
  pc,             \* the step the call or the request is at
  mode,           \* ShopifyClient.mode
  planning,       \* the plan of step 2
  shopifyql,      \* the query text of step 3
  validation_result,  \* what the validator returned in step 4
  failed_at,      \* the step of execute that raised
  message,        \* str(e) of the exception execute raised
  response,       \* the QueryResponse execute returned
  reply,          \* the HTTP reply of the query handler
  previous,       \* the intent and the plan of the request before this one
  invoked,        \* the stages of execute entered for the request, in order
  suspended       \* the backends of the requests waiting at `await classify'

\* what a request of the service adds to the state of the engine
flow == <<mode, planning, shopifyql, validation_result, failed_at, message,
          response, reply, previous, invoked, suspended>>

vars == <<orders, inventory, now, intent_result, raw_data, raised, templated,
          answer_result, enhancement, pc, flow>>

None == [none |-> TRUE]

\* no request of the service is under way
NoRequest ==
  /\ mode = "mock"
  /\ planning = None
  /\ shopifyql = None
  /\ validation_result = None
  /\ failed_at = "none"
  /\ message = <<>>
  /\ response = None
  /\ reply = None
  /\ previous = None
  /\ invoked = <<>>
  /\ suspended = EmptyBag

\* The backend the query runs on: one that MockShopifyData.__init__
\* constructed (the order history drawn at random, the inventory of
\* _generate_inventory), or an order record set and an inventory snapshot
\* handed to the operations; and the intent_result execute_query is called
\* with.  The call has not started.
Init ==
  /\ \/ orders \in MockStores /\ inventory = _generate_inventory
     \/ orders \in OrderRecordSets /\ inventory \in InventorySnapshots
  /\ now = 0
  /\ intent_result \in Intents
  /\ raw_data = <<>>
  /\ raised = "none"
  /\ templated = None
  /\ answer_result = None
  /\ enhancement = "none"
  /\ pc = "execute"
  /\ NoRequest

\* ShopifyClient.execute_query in mock mode, at clock reading t: it returns
\* the rows or raises.  The coroutine has no point of suspension in mock
\* mode (_execute_mock_query and the operations are plain functions).
ExecuteQuery ==
  /\ pc = "execute"
  /\ \E t \in 0..MaxElapsed :
       \E result \in { _execute_mock_query(orders, inventory, t, intent_result) } :
         /\ now' = t
         /\ raised' = result.raised
         /\ raw_data' = result.rows
         /\ pc' = IF result.raised = "none" THEN "returned" ELSE "failed"
  /\ UNCHANGED <<orders, inventory, intent_result, templated, answer_result,
                 enhancement, flow>>

Next == ExecuteQuery

Spec == Init /\ [][Next]_vars

(***************************************************************************)
(* The formatter on its own: format applied to rows of any backend         *)
(***************************************************************************)
\* most rows of a synthetic product result
MaxRows == 6
\* most rows of a synthetic stock result
MaxRiskRows == 2

ProductRow(i, sold) ==
  [product_id    |-> products[i].product_id,
   product_title |-> products[i].product_title,
   total_sold    |-> sold,
   revenue       |-> FloatMul(products[i].price, Float(sold))]

VelocityRow(i, sold, days) ==
  [product_id      |-> products[i].product_id,
   product_title   |-> products[i].product_title,
   total_sold      |-> sold,
   avg_daily_sales |-> FloatDiv(Float(sold), Float(days))]

StockRow(i, stock, avg_daily_sales) ==
  [product_id      |-> products[i].product_id,
   product_title   |-> products[i].product_title,
   current_stock   |-> stock,
   avg_daily_sales |-> avg_daily_sales]

\* n product rows, best seller first
ProductRowSets == { [i \in 1..n |-> ProductRow(i, n - i + 1)] : n \in 0..MaxRows }

\* velocity rows over a 30-day window; the first row is the one a reorder
\* reads.  115 units over 7 days and 175 over 30 are cases where the float
\* product daily_rate * 14 * 1.2 falls just below an integer.
VelocityRowSets ==
  { <<VelocityRow(4, sold, 30)>> : sold \in {0, 1, 7, 60, 115, 175} }
  \cup { <<VelocityRow(4, 60, 30), VelocityRow(5, 7, 30)>> }

\* stock rows: 5, 2, 10, 6 and 7 days of stock; no velocity; and a row of
\* the live backend's inventory listing, which carries neither stock nor
\* velocity
StockRows ==
  { StockRow(1, 10, Float(2)),
    StockRow(7, 4, Float(2)),
    StockRow(2, 10, Float(1)),
    StockRow(3, 6, Float(1)),
    StockRow(4, 10, FloatDiv(Float(10), Float(7))),
    StockRow(5, 6, FloatZero),
    [product_id |-> 6, product_title |-> products[6].product_title,
     sku |-> products[6].sku, quantity |-> 3] }

RECURSIVE SeqsUpTo(_, _)
SeqsUpTo(S, n) ==
  IF n = 0 THEN { <<>> }
  ELSE LET shorter == SeqsUpTo(S, n - 1)
       IN  shorter \cup { Append(q, x) : q \in shorter, x \in S }

\* the rows of the risk tiers side by side: 5 days and 10 days of stock;
\* stock 9 at 9/7 a day, whose float quotient is just below 7; stock 17 at
\* 17/7 a day, whose float quotient is just above 7
TierRows ==
  << StockRow(1, 10, Float(2)),
     StockRow(2, 10, Float(1)),
     StockRow(8, 9, FloatDiv(Float(9), Float(7))),
     StockRow(9, 17, FloatDiv(Float(17), Float(7))) >>

SyntheticRowSets ==
  ProductRowSets \cup VelocityRowSets \cup SeqsUpTo(StockRows, MaxRiskRows)
    \cup { TierRows }

\* the intents the formatter is tried on: also a window of -1 days, a future
\* window and a window that carries no value
IntentsFmt ==
  IntentsOver({ <<>>, << <<"y","o","g","a">> >> },
              TimePeriods \cup { [value |-> 0 - 1, unit |-> "days", future |-> FALSE],
                                 [value |-> 7, unit |-> "days", future |-> TRUE],
                                 [unit |-> "days"] })

\* the intents whose rows are also taken from a store: those that name no
\* entity and no window
IntentsAnswered ==
  { intent \in Intents : intent.entities = <<>> /\ "time_period" \notin DOMAIN intent }

\* The arguments format is called with: an intent and synthetic rows, or an
\* intent and the rows execute_query returned for it on a store of the mock
\* backend (orders, inventory and now then record where the rows come
\* from).  The coroutine has not started.
InitFmt ==
  /\ \/ /\ orders = <<>>
        /\ inventory = <<>>
        /\ now = 0
        /\ intent_result \in IntentsFmt
        /\ raw_data \in SyntheticRowSets
     \/ /\ orders \in MockStores
        /\ inventory = _generate_inventory
        /\ now \in 0..MaxElapsed
        /\ intent_result \in IntentsAnswered
        /\ \E result \in { _execute_mock_query(orders, inventory, now, intent_result) } :
             /\ result.raised = "none"
             /\ raw_data = result.rows
  /\ raised = "none"
  /\ templated = None
  /\ answer_result = None
  /\ enhancement = "none"
  /\ pc = "format"
  /\ NoRequest

\* AnswerFormatter.format, from its start to `await
\* self.llm_client.enhance_answer(...)': the category formatter builds the
\* result, enhance_answer is called with its answer, and the coroutine is
\* suspended; nothing is returned yet
Format ==
  /\ pc = "format"
  /\ templated' = Templated(intent_result, raw_data)
  /\ pc' = "enhancing"
  /\ UNCHANGED <<orders, inventory, now, intent_result, raw_data, raised,
                 answer_result, enhancement, flow>>

\* format is resumed when the enhance_answer call ends: it returns the
\* result, enhanced or not, or the exception the try statement does not
\* catch (also the cancellation of the waiting task) leaves format and
\* nothing is returned
FormatResumed ==
  /\ pc = "enhancing"
  /\ \E outcome \in EnhancementOutcomes :
       /\ enhancement' = outcome
       /\ IF outcome = "escaped"
          THEN /\ answer_result' = answer_result
               /\ pc' = "format_raised"
          ELSE /\ answer_result' = Enhanced(templated, outcome)
               /\ pc' = "done"
  /\ UNCHANGED <<orders, inventory, now, intent_result, raw_data, raised,
                 templated, flow>>

NextFmt == Format \/ FormatResumed

SpecFmt == InitFmt /\ [][NextFmt]_vars

(***************************************************************************)
(* The service: the query handler and AgentWorkflow.execute                *)
(***************************************************************************)
\* _get_required_fields
_get_required_fields(category, metrics) ==
  CASE category = "sales" ->
         <<"product_id", "product_title", "quantity", "total_price", "created_at">>
    [] category = "inventory" -> <<"product_id", "product_title", "quantity", "sku">>
    [] category = "customers" ->
         <<"customer_id", "customer_email", "customer_name", "total_price">>
    [] category = "general" -> <<"product_id", "quantity", "created_at">>
    [] OTHER -> <<"product_id", "created_at">>

\* _determine_aggregation
_determine_aggregation(metrics) ==
  IF {"top_products", "top_sellers"} \cap metrics # {} THEN "sum_group"
  ELSE IF {"stockout_prediction", "reorder_quantity"} \cap metrics # {} THEN "projection"
  ELSE IF "repeat_customers" \in metrics THEN "count_group"
  ELSE "simple"

DataSourcesMutant(category) ==
  CASE category = "sales" -> <<"orders", "products">>
    [] category = "inventory" -> <<"inventory_levels", "products", "orders">>
    [] category = "customers" -> <<"customers">>
    [] category = "general" -> <<"orders", "products">>
    [] OTHER -> <<>>

\* data_source_map.get(category, ['orders'])
DataSources(category) ==
  CASE category = "sales" -> <<"orders", "products">>
    [] category = "inventory" -> <<"inventory_levels", "products", "orders">>
    [] category = "customers" -> <<"customers", "orders">>
    [] category = "general" -> <<"orders", "products">>
    [] OTHER -> <<"orders">>

\* _plan_data_sources
_plan_data_sources(intent) ==
  LET category == intent.category
      metrics == Get(intent, "metrics", {})
  IN  [data_sources     |-> DataSources(category),
       required_fields  |-> _get_required_fields(category, metrics),
       aggregation_type |-> _determine_aggregation(metrics)]

\* _calculate_completeness
_calculate_completeness(rows) ==
  IF rows = <<>> THEN FloatZero
  ELSE IF Len(rows) > 0 THEN Float(1) ELSE FloatZero

\* query_generator.generate(intent_result, planning): a text that is a
\* function of the intent and the plan
generate(intent, plan) == [intent |-> intent, plan |-> plan]

\* what the validator may return for a query: passed, or rejected with or
\* without a reason
ValidationResults ==
  { [passed |-> TRUE],
    [passed |-> FALSE, reason |-> "Forbidden keyword"],
    [passed |-> FALSE] }

\* the exceptions classify may raise: a ValueError (or a subclass of it,
\* such as a JSON decoding error), or an exception of another class
ClassifierErrors == {"ValueError", "RuntimeError"}

\* the categories a classifier may return: the four of the engine, and one
\* the lookups do not know
FlowCategories == Categories \cup {"marketing"}

\* the metric sets a classifier returns with a category: none, or the
\* metric of the category
FlowMetricSets(category) ==
  CASE category = "sales" -> { {}, {"top_products"} }
    [] category = "inventory" -> { {}, {"stockout_prediction"} }
    [] category = "customers" -> { {}, {"repeat_customers"} }
    [] OTHER -> { {} }

IntentsFlow ==
  { intent \in [category : FlowCategories,
                metrics : { {}, {"top_products"}, {"stockout_prediction"},
                            {"repeat_customers"} },
                entities : { <<>> }] :
      intent.metrics \in FlowMetricSets(intent.category) }

\* SHOPIFY_MODE
Modes == {"mock", "real"}

\* the f-string of the ValueError of a rejected query
ValidationMessage(validation) ==
  <<"Query validation failed: ", Get(validation, "reason", "Unknown error")>>

\* what calling the coroutine function format without awaiting it returns
Coroutine == [coroutine |-> "AnswerFormatter.format"]

\* the QueryResponse of execute
QueryResponse(intent, plan, text, validation, rows, result) ==
  [answer            |-> result.answer,
   confidence        |-> result.confidence,
   shopifyql         |-> text,
   intent            |-> intent.category,
   used_data_sources |-> plan.data_sources,
   metadata |->
     [intent_details |-> intent,
      planning       |-> plan,
      validation     |-> validation,
      data_quality   |-> [rows_returned |-> Len(rows),
                          completeness  |-> _calculate_completeness(rows)],
      time_period    |-> Get(intent, "time_period", None),
      entities       |-> Get(intent, "entities", <<>>)]]

HttpReplyMutant(outcome, kind, text, body) ==
  IF outcome = "Done" THEN [status |-> 200, body |-> body]
  ELSE [status |-> 500, detail |-> <<"Internal server error">>]

\* the query handler: the response, or HTTP 400 for a ValueError and HTTP
\* 500 for any other exception
HttpReply(outcome, kind, text, body) ==
  IF outcome = "Done" THEN [status |-> 200, body |-> body]
  ELSE IF kind = "ValueError" THEN [status |-> 400, detail |-> text]
  ELSE [status |-> 500, detail |-> <<"Internal server error">>]

\* requests that may wait for their classifier at the same time
MaxInFlight == 2

\* the backend of a request: what its ShopifyClient constructed
Backend(o, inv) == [orders |-> o, inventory |-> inv]

\* the backends a new ShopifyClient may hold: in mock mode a MockShopifyData
\* with one of the order histories, in real mode none
Backends ==
  [mock |-> { Backend(o, _generate_inventory) : o \in MockStores },
   real |-> { Backend(<<>>, <<>>) }]

\* what execute_query returns or raises in mock mode, for each backend a
\* request may hold, each clock reading and each intent of the service: the
\* results of _execute_mock_query, computed once
MockAnswers ==
  { [backend |-> backend, now |-> t, intent |-> intent,
     result |-> _execute_mock_query(backend.orders, backend.inventory, t, intent)] :
      backend \in Backends.mock, t \in 0..MaxElapsed, intent \in IntentsFlow }

\* the intent and the plan of a request, kept for the next one
PlannedRequest(intent, plan) == [intent |-> intent, planning |-> plan]

\* the service has started (SHOPIFY_MODE is set) and no request has arrived
InitFlow ==
  /\ mode \in Modes
  /\ orders = <<>>
  /\ inventory = <<>>
  /\ now = 0
  /\ intent_result = None
  /\ raw_data = <<>>
  /\ raised = "none"
  /\ templated = None
  /\ answer_result = None
  /\ enhancement = "none"
  /\ planning = None
  /\ shopifyql = None
  /\ validation_result = None
  /\ failed_at = "none"
  /\ message = <<>>
  /\ response = None
  /\ reply = None
  /\ previous = None
  /\ invoked = <<>>
  /\ suspended = EmptyBag
  /\ pc = "Idle"

\* no request is running: the event loop can start a request or resume one.
\* From the resumption of classify to the end of the handler a request has
\* no point of suspension (in mock mode execute_query does not wait, in real
\* mode the call of _execute_real_query raises at once, and format is not
\* awaited).
Quiescent == pc = "Idle"

\* a request arrives: the handler constructs an AgentWorkflow, whose client
\* builds a new MockShopifyData in mock mode, and calls execute, which calls
\* classify and waits for it; other requests may be waiting already
NewRequest ==
  /\ Quiescent
  /\ BagCardinality(suspended) < MaxInFlight
  /\ \E backend \in Backends[mode] :
       suspended' = suspended (+) SetToBag({backend})
  /\ UNCHANGED <<orders, inventory, now, intent_result, raw_data, raised, templated,
                 answer_result, enhancement, pc, mode, planning, shopifyql,
                 validation_result, failed_at, message, response, reply, previous,
                 invoked>>

\* an exception leaves execute from step `step'
Fails(step, kind, text) ==
  /\ raised' = kind
  /\ failed_at' = step
  /\ message' = text
  /\ pc' = "Failed"

\* step 1: one of the waiting requests is resumed, classify returns an
\* intent or raises
ClassifyIntent ==
  /\ Quiescent
  /\ \E backend \in BagToSet(suspended) :
       /\ suspended' = suspended (-) SetToBag({backend})
       /\ orders' = backend.orders
       /\ inventory' = backend.inventory
  /\ invoked' = <<"classify">>
  /\ \/ /\ \E intent \in IntentsFlow : intent_result' = intent
        /\ pc' = "Planning"
        /\ UNCHANGED <<raised, failed_at, message>>
     \/ /\ \E kind \in ClassifierErrors : Fails("Classifying", kind, <<kind>>)
        /\ UNCHANGED intent_result
  /\ UNCHANGED <<now, raw_data, templated, answer_result, enhancement, mode,
                 planning, shopifyql, validation_result, response, reply, previous>>

\* step 2
PlanDataSources ==
  /\ invoked' = Append(invoked, "plan")
  /\ pc = "Planning"
  /\ planning' = _plan_data_sources(intent_result)
  /\ pc' = "QueryGenerating"
  /\ UNCHANGED <<orders, inventory, now, intent_result, raw_data, raised, templated,
                 answer_result, enhancement, mode, shopifyql, validation_result,
                 failed_at, message, response, reply, previous, suspended>>

\* step 3
GenerateQuery ==
  /\ invoked' = Append(invoked, "generate")
  /\ pc = "QueryGenerating"
  /\ shopifyql' = generate(intent_result, planning)
  /\ pc' = "Validating"
  /\ UNCHANGED <<orders, inventory, now, intent_result, raw_data, raised, templated,
                 answer_result, enhancement, mode, planning, validation_result,
                 failed_at, message, response, reply, previous, suspended>>

ValidateQueryMutant ==
  /\ invoked' = Append(invoked, "validate")
  /\ pc = "Validating"
  /\ \E validation \in ValidationResults :
       /\ validation_result' = validation
       /\ pc' = "Executing"
       /\ UNCHANGED <<raised, failed_at, message>>
  /\ UNCHANGED <<orders, inventory, now, intent_result, raw_data, templated,
                 answer_result, enhancement, mode, planning, shopifyql,
                 response, reply, previous, suspended>>

\* step 4, validation: a query that did not pass raises ValueError
ValidateQuery ==
  /\ invoked' = Append(invoked, "validate")
  /\ pc = "Validating"
  /\ \E validation \in ValidationResults :
       /\ validation_result' = validation
       /\ IF validation.passed
          THEN pc' = "Executing" /\ UNCHANGED <<raised, failed_at, message>>
          ELSE Fails("Validating", "ValueError", ValidationMessage(validation))
  /\ UNCHANGED <<orders, inventory, now, intent_result, raw_data, templated,
                 answer_result, enhancement, mode, planning, shopifyql,
                 response, reply, previous, suspended>>

\* step 4, execution: execute_query routes to the mock data (the entry of
\* MockAnswers for the request's backend, the clock reading and the intent),
\* or calls _execute_real_query without its intent_result argument
ExecuteStep ==
  /\ invoked' = Append(invoked, "execute")
  /\ pc = "Executing"
  /\ IF mode = "mock"
     THEN \E t \in 0..MaxElapsed :
            \E result \in { answer.result : answer \in
                             { a \in MockAnswers : /\ a.now = t
                                                   /\ a.intent = intent_result
                                                   /\ a.backend = Backend(orders, inventory) } } :
              /\ now' = t
              /\ raw_data' = result.rows
              /\ IF result.raised = "none"
                 THEN pc' = "Formatting" /\ UNCHANGED <<raised, failed_at, message>>
                 ELSE Fails("Executing", result.raised, <<result.raised>>)
     ELSE /\ Fails("Executing", "TypeError", <<"TypeError">>)
          /\ UNCHANGED <<now, raw_data>>
  /\ UNCHANGED <<orders, inventory, intent_result, templated, answer_result,
                 enhancement, mode, planning, shopifyql, validation_result,
                 response, reply, previous, suspended>>

\* step 5: format is a coroutine function and the call is not awaited
FormatStep ==
  /\ invoked' = Append(invoked, "format")
  /\ pc = "Formatting"
  /\ answer_result' = Coroutine
  /\ pc' = "Assembling"
  /\ UNCHANGED <<orders, inventory, now, intent_result, raw_data, raised, templated,
                 enhancement, mode, planning, shopifyql, validation_result,
                 failed_at, message, response, reply, previous, suspended>>

\* the response is built from answer_result['answer'] and
\* answer_result['confidence']; a coroutine is not subscriptable
BuildResponse ==
  /\ pc = "Assembling"
  /\ UNCHANGED invoked
  /\ IF answer_result = Coroutine
     THEN /\ Fails("Assembling", "TypeError", <<"TypeError">>)
          /\ UNCHANGED response
     ELSE /\ response' = QueryResponse(intent_result, planning, shopifyql,
                                       validation_result, raw_data, answer_result)
          /\ pc' = "Done"
          /\ UNCHANGED <<raised, failed_at, message>>
  /\ UNCHANGED <<orders, inventory, now, intent_result, raw_data, templated,
                 answer_result, enhancement, mode, planning, shopifyql,
                 validation_result, reply, previous, suspended>>

\* the query handler answers the request
Reply ==
  /\ pc \in {"Done", "Failed"}
  /\ UNCHANGED invoked
  /\ reply' = HttpReply(pc, raised, message, response)
  /\ pc' = "Replied"
  /\ UNCHANGED <<orders, inventory, now, intent_result, raw_data, raised, templated,
                 answer_result, enhancement, mode, planning, shopifyql,
                 validation_result, failed_at, message, response, previous, suspended>>

\* the handler has ended: the AgentWorkflow of the request and what execute
\* computed are released.  The intent and the plan of the request are kept
\* in `previous' for comparison with the request that runs next.
EndRequest ==
  /\ pc = "Replied"
  /\ previous' = IF planning # None THEN PlannedRequest(intent_result, planning) ELSE None
  /\ orders' = <<>>
  /\ inventory' = <<>>
  /\ now' = 0
  /\ intent_result' = None
  /\ raw_data' = <<>>
  /\ raised' = "none"
  /\ answer_result' = None
  /\ planning' = None
  /\ shopifyql' = None
  /\ validation_result' = None
  /\ failed_at' = "none"
  /\ message' = <<>>
  /\ response' = None
  /\ reply' = None
  /\ invoked' = <<>>
  /\ pc' = "Idle"
  /\ UNCHANGED <<templated, enhancement, mode, suspended>>

NextFlow ==
  \/ NewRequest
  \/ ClassifyIntent
  \/ PlanDataSources
  \/ GenerateQuery
  \/ ValidateQuery
  \/ ExecuteStep
  \/ FormatStep
  \/ BuildResponse
  \/ Reply
  \/ EndRequest

SpecFlow == InitFlow /\ [][NextFlow]_vars

(***************************************************************************)
(* Properties                                                              *)
(***************************************************************************)
\* execute_query has returned rows: raw_data holds them
Executed == pc = "returned"

\* the window length a request asks for, or the operation's default
AskedDays(default) ==
  IF "time_period" \in DOMAIN intent_result /\ "value" \in DOMAIN intent_result.time_period
  THEN intent_result.time_period.value
  ELSE default

\* which operation of the store a request is routed to
AsksTopProducts ==
  \/ intent_result.category = "sales" /\ "top_products" \in intent_result.metrics
  \/ intent_result.category = "general"
AsksVelocity ==
  intent_result.category = "inventory" /\ "reorder_quantity" \in intent_result.metrics
AsksStockout ==
  /\ intent_result.category = "inventory"
  /\ "stockout_prediction" \in intent_result.metrics
  /\ "reorder_quantity" \notin intent_result.metrics
AsksRepeatCustomers ==
  intent_result.category = "customers" /\ "repeat_customers" \in intent_result.metrics

\* the positions of the store's orders that lie in the window of `days' days
InWindow(days) ==
  { k \in DOMAIN orders : orders[k].created_at >= now - days * TicksPerDay }

\* units of product pid on the orders at the positions ks that carry a
\* quantity of at most q
RECURSIVE UnitsUpTo(_, _, _)
UnitsUpTo(pid, ks, q) ==
  IF q = 0 THEN 0
  ELSE q * Cardinality({ k \in ks : orders[k].product_id = pid /\ orders[k].quantity = q })
       + UnitsUpTo(pid, ks, q - 1)

\* units of product pid on the orders at the positions ks
UnitsSold(pid, ks) == UnitsUpTo(pid, ks, MaxQuantity)

\* the stock of product pid in the inventory
StockOf(pid) ==
  inventory[CHOOSE i \in DOMAIN inventory : inventory[i].product_id = pid].quantity

\* C1: get_top_products returns at most 5 rows, every row with
\* total_sold >= 0, in non-increasing order of total_sold, whatever the
\* orders, the window and the entity list.
C1_TopProductsBounded ==
  (Executed /\ AsksTopProducts) =>
    /\ Len(raw_data) <= 5
    /\ \A i \in DOMAIN raw_data : raw_data[i].total_sold >= 0
    /\ \A i, j \in DOMAIN raw_data :
         i < j => raw_data[i].total_sold >= raw_data[j].total_sold

\* more than 5 products sold in the window, rows of unequal totals returned
C1_Witness ==
  /\ Executed /\ AsksTopProducts
  /\ intent_result.entities = <<>>
  /\ Cardinality({ orders[k].product_id : k \in InWindow(AskedDays(7)) }) > 5
  /\ Len(raw_data) = 5
  /\ raw_data[1].total_sold > raw_data[5].total_sold

\* C2, as claimed: get_sales_velocity with a window of value 0 and no entity
\* raises nothing and every row it returns has avg_daily_sales = 0.
C2_ZeroWindowVelocity ==
  ( /\ pc \in {"returned", "failed"}
    /\ AsksVelocity
    /\ AskedDays(30) = 0
    /\ intent_result.entities = <<>> ) =>
    /\ raised = "none"
    /\ \A i \in DOMAIN raw_data : raw_data[i].avg_daily_sales = FloatZero

\* C3: every row of get_stockout_risks is a product that sold in the last 7
\* days (avg_daily_sales = units / 7 > 0) and whose stock lasts at most 7
\* days at that rate (current_stock / avg_daily_sales <= 7, both quotients
\* being the floats the program computes); such a product's stock is no
\* more than the units it sold in the 7 days.
C3_StockoutRowsAtRisk ==
  (Executed /\ AsksStockout) =>
    \A i \in DOMAIN raw_data :
      LET r == raw_data[i]
          units == UnitsSold(r.product_id, InWindow(7))
      IN  /\ units > 0
          /\ r.avg_daily_sales = FloatDiv(Float(units), Float(7))
          /\ FloatLT(FloatZero, r.avg_daily_sales)
          /\ r.current_stock = StockOf(r.product_id)
          /\ FloatLE(FloatDiv(Float(r.current_stock), r.avg_daily_sales), Float(7))
          /\ r.current_stock <= units

\* two products sold in the 7 days exactly the units in stock: the one
\* whose float quotient is 7 is returned, the one whose float quotient is
\* just above 7 is left out
C3_Witness ==
  /\ Executed /\ AsksStockout
  /\ \E i \in DOMAIN raw_data :
       raw_data[i].current_stock = UnitsSold(raw_data[i].product_id, InWindow(7))
  /\ \E k \in InWindow(7) :
       /\ \E i \in DOMAIN inventory : inventory[i].product_id = orders[k].product_id
       /\ StockOf(orders[k].product_id) = UnitsSold(orders[k].product_id, InWindow(7))
       /\ \E units \in { UnitsSold(orders[k].product_id, InWindow(7)) },
             stock \in { StockOf(orders[k].product_id) } :
            \E velocity \in { FloatDiv(Float(units), Float(7)) } :
              \E days \in { FloatDiv(Float(stock), velocity) } :
                FloatLT(Float(7), days)
       /\ \A i \in DOMAIN raw_data : raw_data[i].product_id # orders[k].product_id

\* orders without the one at position k
WithoutOrder(k) == SubSeq(orders, 1, k - 1) \o SubSeq(orders, k + 1, Len(orders))

\* the orders of customer cid in the window of the request
OrdersOf(cid) ==
  { k \in InWindow(AskedDays(90)) : orders[k].customer_id = cid }

\* C4: get_repeat_customers returns only customers with more than one order
\* in the window; a customer with exactly 2 orders in the window is returned,
\* and is no longer returned once either of the two orders is removed.
C4_RepeatCustomers ==
  (Executed /\ AsksRepeatCustomers) =>
    /\ \A i \in DOMAIN raw_data :
         /\ raw_data[i].order_count > 1
         /\ raw_data[i].order_count = Cardinality(OrdersOf(raw_data[i].customer_id))
    /\ \A k \in DOMAIN orders :
         (Cardinality(OrdersOf(orders[k].customer_id)) = 2
            /\ k \in OrdersOf(orders[k].customer_id)) =>
           LET time_period == Get(intent_result, "time_period", <<>>)
               after == get_repeat_customers(WithoutOrder(k), now, time_period)
           IN  /\ \E i \in DOMAIN raw_data : raw_data[i].customer_id = orders[k].customer_id
               /\ \A i \in DOMAIN after : after[i].customer_id # orders[k].customer_id

\* a customer with exactly 2 orders in the window is among the rows
C4_Witness ==
  /\ Executed /\ AsksRepeatCustomers
  /\ \E i \in DOMAIN raw_data :
       /\ raw_data[i].order_count = 2
       /\ Cardinality(OrdersOf(raw_data[i].customer_id)) = 2

\* format has returned: templated is the result its category formatter built
\* from the rows
Formatted == pc = "done"

\* the request takes the top-products path of the sales formatter, the only
\* caller of the confidence scorer
ScoredByRows ==
  /\ intent_result.category = "sales"
  /\ "top_products" \in intent_result.metrics
  /\ raw_data # <<>>

\* C5: the confidence scorer grades HIGH exactly when row_count >= 5 and
\* window_days >= 30, otherwise MEDIUM exactly when row_count >= 3 and
\* window_days >= 7, otherwise LOW; window_days is the window's value, 7
\* when there is none.
C5_ConfidenceGrades ==
  (Formatted /\ ScoredByRows) =>
    LET row_count == Len(raw_data)
        window_days == AskedDays(7)
        high == row_count >= 5 /\ window_days >= 30
        medium == ~high /\ row_count >= 3 /\ window_days >= 7
    IN  /\ (templated.confidence = "high") <=> high
        /\ (templated.confidence = "medium") <=> medium
        /\ (templated.confidence = "low") <=> (~high /\ ~medium)

\* exactly 5 rows over exactly 30 days: graded high
C5_Witness ==
  /\ Formatted /\ ScoredByRows
  /\ Len(raw_data) = 5
  /\ AskedDays(7) = 30
  /\ templated.confidence = "high"

\* low < medium < high
GradeRank(confidence) ==
  IF confidence = "low" THEN 0 ELSE IF confidence = "medium" THEN 1 ELSE 2

\* C6: the scorer is monotonic: with at least as many rows and at least as
\* long a window as those of a graded request, the grade is at least as high.
C6_ConfidenceMonotonic ==
  (Formatted /\ ScoredByRows) =>
    \A more \in ProductRowSets, longer \in TimePeriods :
      (Len(more) >= Len(raw_data) /\ longer.value >= AskedDays(7)) =>
        GradeRank(_calculate_confidence(more, longer)) >= GradeRank(templated.confidence)

\* a request graded medium, with a larger input that is graded high
C6_Witness ==
  /\ Formatted /\ ScoredByRows
  /\ templated.confidence = "medium"
  /\ \E more \in ProductRowSets, longer \in TimePeriods :
       /\ Len(more) >= Len(raw_data) /\ longer.value >= AskedDays(7)
       /\ _calculate_confidence(more, longer) = "high"

\* the fixed message of each category for an empty result
NoDataMessage(category) ==
  IF category = "sales" THEN "No sales data found for the specified period"
  ELSE IF category = "inventory" THEN "No inventory data found for the specified products"
  ELSE IF category = "customers" THEN "No customer data found for the specified period"
  ELSE "No data found for your query"

\* C7: for every category and metric set, an empty result is answered with
\* the category's fixed no-data message at confidence low, and nothing else.
C7_EmptyResultNoData ==
  (Formatted /\ raw_data = <<>>) =>
    /\ templated.confidence = "low"
    /\ templated.answer = [template |-> NoDataMessage(intent_result.category)]

\* an empty result of a stockout question: answered with the no-data message
C7_Witness ==
  /\ Formatted /\ raw_data = <<>>
  /\ intent_result.category = "inventory"
  /\ intent_result.metrics = {"stockout_prediction"}
  /\ templated.answer.template = "No inventory data found for the specified products"

\* the rows that the stockout answer counts as risk entries
RiskEntries ==
  { i \in DOMAIN raw_data :
      /\ "avg_daily_sales" \in DOMAIN raw_data[i]
      /\ FloatLT(FloatZero, raw_data[i].avg_daily_sales)
      /\ FloatLE(FloatDiv(Float(Get(raw_data[i], "current_stock", 0)),
                          raw_data[i].avg_daily_sales),
                 Float(7)) }

\* C8, as claimed: a stockout question whose result holds no risk entry (no
\* row at all, or no row at risk) is answered with the fixed message that no
\* product is at risk, at confidence high.
C8_NoRiskReassures ==
  ( /\ Formatted
    /\ intent_result.category = "inventory"
    /\ intent_result.metrics = {"stockout_prediction"}
    /\ RiskEntries = {} ) =>
    /\ templated.confidence = "high"
    /\ templated.answer =
         [template |-> "Good news! None of your products are at risk of stockout"]

\* the request takes the reorder path of the inventory formatter
Reorders ==
  /\ intent_result.category = "inventory"
  /\ "reorder_quantity" \in intent_result.metrics
  /\ raw_data # <<>>

TierOf(tier) ==
  IF tier \in DOMAIN templated.answer THEN templated.answer[tier] ELSE <<>>

\* row r is listed in the tier
ListedIn(tier, r) ==
  \E i \in DOMAIN TierOf(tier) :
    /\ TierOf(tier)[i].name = r.product_title
    /\ TierOf(tier)[i].stock = Get(r, "current_stock", 0)

\* the request takes the stockout path of the inventory formatter
PredictsStockout ==
  /\ intent_result.category = "inventory"
  /\ intent_result.metrics = {"stockout_prediction"}
  /\ raw_data # <<>>

\* C10: by days_remaining = current_stock / avg_daily_sales, the float the
\* program computes, a row with at most 5 days is listed as high risk only,
\* one with more than 5 and at most 7 days as medium risk only, one with
\* more than 7 days in neither tier.
C10_RiskTiers ==
  (Formatted /\ PredictsStockout) =>
    /\ \A i \in DOMAIN raw_data :
         LET r == raw_data[i]
             has_velocity ==
               "avg_daily_sales" \in DOMAIN r /\ FloatLT(FloatZero, r.avg_daily_sales)
             days_remaining == FloatDiv(Float(Get(r, "current_stock", 0)), r.avg_daily_sales)
         IN  has_velocity =>
               /\ FloatLE(days_remaining, Float(5)) =>
                    (ListedIn("high_risk", r) /\ ~ListedIn("medium_risk", r))
               /\ (FloatLT(Float(5), days_remaining) /\ FloatLE(days_remaining, Float(7))) =>
                    (ListedIn("medium_risk", r) /\ ~ListedIn("high_risk", r))
               /\ FloatLT(Float(7), days_remaining) =>
                    (~ListedIn("high_risk", r) /\ ~ListedIn("medium_risk", r))
    /\ (templated.answer.template = "Products at risk of stockout within 7 days") =>
         (templated.answer.count =
            Len(templated.answer.high_risk) + Len(templated.answer.medium_risk))

\* stock 10 at 2 a day (5 days) listed high, stock 10 at 1 a day (10 days)
\* listed nowhere, stock 9 at 9/7 a day (just below 7 days) listed medium,
\* stock 17 at 17/7 a day (just above 7 days) listed nowhere
C10_Witness ==
  /\ Formatted /\ PredictsStockout
  /\ raw_data = TierRows
  /\ ListedIn("high_risk", raw_data[1]) /\ ~ListedIn("medium_risk", raw_data[1])
  /\ ~ListedIn("high_risk", raw_data[2]) /\ ~ListedIn("medium_risk", raw_data[2])
  /\ ListedIn("medium_risk", raw_data[3]) /\ ~ListedIn("high_risk", raw_data[3])
  /\ ~ListedIn("high_risk", raw_data[4]) /\ ~ListedIn("medium_risk", raw_data[4])
  /\ templated.answer.count = 2

\* C11, as claimed: no failure of the enhancement call makes format fail or
\* changes the confidence: whenever the call has ended, format has returned
\* a result with the confidence of the templated answer, and when the call
\* failed the answer returned is exactly the templated answer.
C11_EnhancementFailureHarmless ==
  (enhancement # "none") =>
    /\ pc = "done"
    /\ DOMAIN answer_result = {"answer", "confidence"}
    /\ answer_result.confidence = templated.confidence
    /\ (enhancement # "enhanced" => answer_result = templated)
    /\ (enhancement = "enhanced" => answer_result.answer.draft = templated.answer)

\* the request was answered after the validator rejected its query
Rejected ==
  /\ pc = "Replied"
  /\ validation_result # None
  /\ ~validation_result.passed

\* C12: when the validator returns passed = false, the request ends in the
\* user-correctable error (ValueError, HTTP 400) whose message carries the
\* validator's reason, not in the internal error (HTTP 500).
C12_RejectionIsUserError ==
  Rejected =>
    /\ raised = "ValueError"
    /\ reply.status = 400
    /\ reply.detail[1] = "Query validation failed: "
    /\ ("reason" \in DOMAIN validation_result => reply.detail[2] = validation_result.reason)

\* a query rejected with a reason was answered
C12_Witness ==
  /\ Rejected
  /\ "reason" \in DOMAIN validation_result
  /\ reply.detail = <<"Query validation failed: ", "Forbidden keyword">>

\* C13, as claimed: every failure of the classifier or of the backend ends
\* in HTTP 500, whatever the exception, and HTTP 400 is the reply to a
\* validation rejection only.
C13_CollaboratorFailureIsInternal ==
  (pc = "Replied") =>
    /\ (failed_at \in {"Classifying", "Executing"} => reply.status = 500)
    /\ (reply.status = 400 => failed_at = "Validating")

\* C14, as claimed: when classification, generation, validation, execution
\* and answer synthesis raise nothing, execute reaches Done and returns an
\* envelope with the answer and confidence of the AnswerResult, the
\* classified category, the number of rows and completeness 1.0 or 0.0.
C14_SuccessEnvelope ==
  ( /\ pc \in {"Done", "Failed"}
    /\ failed_at \notin {"Classifying", "Validating", "Executing"} ) =>
    /\ pc = "Done"
    /\ response.confidence \in {"low", "medium", "high"}
    /\ response.answer = answer_result.answer
    /\ response.confidence = answer_result.confidence
    /\ response.intent = intent_result.category
    /\ response.metadata.data_quality.rows_returned = Len(raw_data)
    /\ response.metadata.data_quality.completeness =
         (IF Len(raw_data) > 0 THEN Float(1) ELSE FloatZero)

\* the request has been planned
Planned == planning # None

\* C15: the plan is a static lookup on the intent: sales gives [orders,
\* products], inventory [inventory_levels, products, orders], customers
\* [customers, orders], general [orders, products], any other category
\* [orders]; so the data sources always contain orders, contain customers
\* for the category customers, and a request with the intent of the request
\* before it gets the same plan.
C15_PlanStaticLookup ==
  Planned =>
    LET category == intent_result.category
        sources == planning.data_sources
    IN  /\ (category = "sales" => sources = <<"orders", "products">>)
        /\ (category = "inventory" => sources = <<"inventory_levels", "products", "orders">>)
        /\ (category = "customers" => sources = <<"customers", "orders">>)
        /\ (category = "general" => sources = <<"orders", "products">>)
        /\ (category \notin Categories => sources = <<"orders">>)
        /\ (\E i \in DOMAIN sources : sources[i] = "orders")
        /\ ((previous # None /\ previous.intent = intent_result) =>
              planning = previous.planning)

\* a customers request planned after a request with the same intent
C15_Witness ==
  /\ Planned
  /\ intent_result.category = "customers"
  /\ planning.data_sources = <<"customers", "orders">>
  /\ previous # None
  /\ previous.intent = intent_result

\* the request is routed to get_sales_summary, or to get_top_customers
AsksSalesSummary ==
  intent_result.category = "sales" /\ "top_products" \notin intent_result.metrics
AsksTopCustomers ==
  intent_result.category = "customers" /\ "repeat_customers" \notin intent_result.metrics

\* a window long enough to hold every order of the store
WholeHistory ==
  [value |-> HistoryDays + MaxElapsed + 1, unit |-> "days", future |-> FALSE]

\* product and units of each row
SoldPerProduct(rows) ==
  [i \in DOMAIN rows |-> <<rows[i].product_id, rows[i].total_sold>>]

\* C16, as claimed: a window of value 0 means no filtering: top products,
\* sales velocity, repeat customers, sales summary and top customers given
\* such a window aggregate over all orders of the store, whatever their
\* timestamps.
C16_ZeroWindowNoFiltering ==
  ( /\ pc \in {"returned", "failed"}
    /\ "time_period" \in DOMAIN intent_result
    /\ intent_result.time_period.value = 0 ) =>
    LET entities == intent_result.entities
    IN  /\ AsksTopProducts =>
             raw_data = get_top_products(orders, now, WholeHistory, entities)
        /\ AsksVelocity =>
             /\ raised = "none"
             /\ SoldPerProduct(raw_data) =
                  SoldPerProduct(get_sales_velocity(orders, now, WholeHistory, entities).rows)
        /\ AsksRepeatCustomers =>
             raw_data = get_repeat_customers(orders, now, WholeHistory)
        /\ AsksSalesSummary =>
             raw_data = get_sales_summary(orders, now, WholeHistory)
        /\ AsksTopCustomers =>
             raw_data = get_top_customers(orders, now, WholeHistory)

\* the backend of the request under way has returned rows
FlowExecuted ==
  /\ pc \in {"Formatting", "Assembling", "Done", "Failed", "Replied"}
  /\ failed_at \in {"none", "Assembling"}

\* C17, as claimed: in mock mode two independently constructed backends hold
\* the same orders and inventory, so the same intent executed at the same
\* 'now' returns the same rows for both: the backend of the request under
\* way and the backend of any request that waits for its classifier.
C17_MockDataDeterministic ==
  (mode = "mock" /\ ~Quiescent) =>
    \A backend \in BagToSet(suspended) :
      /\ backend.orders = orders
      /\ backend.inventory = inventory
      /\ FlowExecuted =>
           _execute_mock_query(backend.orders, backend.inventory, now, intent_result).rows
             = raw_data

\* the request is routed to get_inventory_levels, which reads no order
AsksInventoryLevels ==
  /\ intent_result.category = "inventory"
  /\ intent_result.metrics \cap {"reorder_quantity", "stockout_prediction"} = {}

\* the request's query has just returned or raised
Queried == pc \in {"returned", "failed"}

\* no product of the catalogue has a title that contains one of the entities
MatchesNoTitle(entities) ==
  \A i \in DOMAIN products : ~EntityMatch(entities, products[i].product_title)

\* C18: on an empty order set every aggregation (top products, sales
\* velocity, stockout risks, repeat customers, sales summary, top customers)
\* returns an empty sequence and raises nothing; top products and sales
\* velocity return an empty sequence, and raise nothing, when the entity
\* list is non-empty and matches no product title.
C18_EmptyInputsEmptyResult ==
  (Queried /\ ~AsksInventoryLevels) =>
    /\ (orders = <<>> => (raised = "none" /\ raw_data = <<>>))
    /\ ( ( /\ AsksTopProducts \/ AsksVelocity
           /\ intent_result.entities # <<>>
           /\ MatchesNoTitle(intent_result.entities) ) =>
         (raised = "none" /\ raw_data = <<>>) )

\* sales velocity asked with a window of 0 days and an entity that matches no
\* title, on a store with orders stamped at the query instant
C18_Witness ==
  /\ Queried /\ AsksVelocity
  /\ AskedDays(30) = 0
  /\ InWindow(0) # {}
  /\ intent_result.entities # <<>>
  /\ MatchesNoTitle(intent_result.entities)
  /\ raw_data = <<>>
  /\ raised = "none"

\* the position of the first order of product pid in the last 7 days
FirstSold7(pid) ==
  CHOOSE k \in InWindow(7) :
    /\ orders[k].product_id = pid
    /\ \A l \in InWindow(7) : orders[l].product_id = pid => k <= l

\* the units of product pid sold in the last 7 days, per day
Velocity7(pid) ==
  CHOOSE velocity \in { FloatDiv(Float(units), Float(7)) :
                          units \in { UnitsSold(pid, InWindow(7)) } } : TRUE

\* the days the stock of product pid lasts at that rate
StockDays7(pid) ==
  CHOOSE days \in { FloatDiv(Float(stock), velocity) :
                      stock \in { StockOf(pid) }, velocity \in { Velocity7(pid) } } : TRUE

\* the products that sold in the last 7 days, are in the inventory and
\* whose stock lasts at most 7 days at the rate of those 7 days
AtRisk7 ==
  { pid \in { orders[k].product_id : k \in InWindow(7) } :
      /\ \E i \in DOMAIN inventory : inventory[i].product_id = pid
      /\ UnitsSold(pid, InWindow(7)) > 0
      /\ \E days \in { StockDays7(pid) } : FloatLE(days, Float(7)) }

\* C19: get_stockout_risks computes the velocity over a fixed trailing 7-day
\* window, whatever window the caller passes: the rows returned for a
\* request are fixed by the orders, the inventory and 'now' alone.  They are
\* one row for each product at risk by its sales of the last 7 days,
\* carrying its stock and its 7-day velocity, by ascending days of stock
\* and, where these are equal, in the order the products first sold in the
\* 7 days.
C19_StockoutWindowFixed ==
  (Executed /\ AsksStockout) =>
    /\ { raw_data[i].product_id : i \in DOMAIN raw_data } = AtRisk7
    /\ \A i \in DOMAIN raw_data :
         raw_data[i] =
           [product_id      |-> raw_data[i].product_id,
            product_title   |-> orders[FirstSold7(raw_data[i].product_id)].product_title,
            current_stock   |-> StockOf(raw_data[i].product_id),
            avg_daily_sales |-> Velocity7(raw_data[i].product_id)]
    /\ \A i, j \in DOMAIN raw_data :
         i < j =>
           \E earlier \in { StockDays7(raw_data[i].product_id) },
              later \in { StockDays7(raw_data[j].product_id) } :
             \/ FloatLT(earlier, later)
             \/ /\ ~FloatLT(later, earlier)
                /\ FirstSold7(raw_data[i].product_id) < FirstSold7(raw_data[j].product_id)

\* stockout risks asked with a window longer than 7 days; a product is
\* returned that sold more in the window asked for than in the 7 days, at
\* another rate per day than the one of its row
C19_Witness ==
  /\ Executed /\ AsksStockout
  /\ AskedDays(7) > 7
  /\ \E i \in DOMAIN raw_data :
       /\ UnitsSold(raw_data[i].product_id, InWindow(AskedDays(7)))
            > UnitsSold(raw_data[i].product_id, InWindow(7))
       /\ \E units \in { UnitsSold(raw_data[i].product_id, InWindow(AskedDays(7))) } :
            raw_data[i].avg_daily_sales # FloatDiv(Float(units), Float(AskedDays(7)))

\* days_remaining of a risk row
DaysRemainingOf(row) == FloatDiv(Float(row.current_stock), row.avg_daily_sales)

\* C20: the rows of get_stockout_risks are in ascending order of
\* days_remaining = current_stock / avg_daily_sales: each row's is at most
\* that of the row after it.
C20_RisksMostUrgentFirst ==
  (Executed /\ AsksStockout) =>
    \A i \in 1..(Len(raw_data) - 1) :
      FloatLE(DaysRemainingOf(raw_data[i]), DaysRemainingOf(raw_data[i + 1]))

\* several products at risk, the first with fewer days remaining than the last
C20_Witness ==
  /\ Executed /\ AsksStockout
  /\ Len(raw_data) >= 3
  /\ FloatLT(DaysRemainingOf(raw_data[1]), DaysRemainingOf(raw_data[Len(raw_data)]))

\* the positions of the orders get_top_products aggregates: in the window,
\* and of a product whose title contains an entity when entities are given
FilteredPositions ==
  { k \in InWindow(AskedDays(7)) :
      \/ intent_result.entities = <<>>
      \/ EntityMatch(intent_result.entities, orders[k].product_title) }

\* the products on the aggregated orders
SoldProducts == { orders[k].product_id : k \in FilteredPositions }

\* the position of the first aggregated order of product pid
FirstSeen(pid) ==
  CHOOSE k \in FilteredPositions :
    /\ orders[k].product_id = pid
    /\ \A l \in FilteredPositions : orders[l].product_id = pid => k <= l

\* the products of the rows
Listed == { raw_data[i].product_id : i \in DOMAIN raw_data }

\* C21: in get_top_products, rows of equal total_sold are in the order of
\* the first appearance of their products in the filtered orders, and a
\* product left out by the truncation to 5 sold less than every row, or as
\* much as a row but appeared after it.
C21_TopProductsStableTies ==
  (Executed /\ AsksTopProducts) =>
    /\ \A i, j \in DOMAIN raw_data :
         (i < j /\ raw_data[i].total_sold = raw_data[j].total_sold) =>
           FirstSeen(raw_data[i].product_id) < FirstSeen(raw_data[j].product_id)
    /\ \A pid \in SoldProducts \ Listed :
         \A i \in DOMAIN raw_data :
           \/ raw_data[i].total_sold > UnitsSold(pid, FilteredPositions)
           \/ /\ raw_data[i].total_sold = UnitsSold(pid, FilteredPositions)
              /\ FirstSeen(raw_data[i].product_id) < FirstSeen(pid)

\* two rows tie, and a product that sold as much as the fifth row is left out
C21_Witness ==
  /\ Executed /\ AsksTopProducts
  /\ Len(raw_data) = 5
  /\ \E i \in 1..4 : raw_data[i].total_sold = raw_data[i + 1].total_sold
  /\ \E pid \in SoldProducts \ Listed :
       UnitsSold(pid, FilteredPositions) = raw_data[5].total_sold

\* the sum of order_count over the first n rows
RECURSIVE OrderCountOf(_, _)
OrderCountOf(rows, n) ==
  IF n = 0 THEN 0 ELSE OrderCountOf(rows, n - 1) + Get(rows[n], "order_count", 0)

\* format was called with the rows execute_query returned on a store
RowsOfStore == orders # <<>>

\* C22, as claimed: the answer to a sales question without top_products
\* reports the number of orders in the window (the sum of the rows'
\* order_count) and the sum of the rows' total_revenue, gives the average
\* order value as that revenue over that count, and is graded high exactly
\* when that count is above 10, else medium.
C22_SalesSummaryTotals ==
  (pc = "done" /\ AsksSalesSummary /\ RowsOfStore /\ raw_data # <<>>) =>
    LET order_count == OrderCountOf(raw_data, Len(raw_data))
        revenue == SumOf(raw_data, "total_revenue")
    IN  /\ order_count = Cardinality(InWindow(AskedDays(7)))
        /\ templated.answer.total_orders = order_count
        /\ templated.answer.total_revenue = revenue
        /\ templated.answer.average_order_value = FloatDiv(revenue, Float(order_count))
        /\ templated.confidence = (IF order_count > 10 THEN "high" ELSE "medium")

\* days_remaining of the risk entry at position i of the rows
RiskDays(i) ==
  DaysRemaining(Get(raw_data[i], "current_stock", 0), raw_data[i].avg_daily_sales)

\* the risk entries of the HIGH tier, and the tier the recommendation is
\* taken from: HIGH when it has an entry, else MEDIUM
HighEntries == { i \in RiskEntries : FloatLE(RiskDays(i), Float(5)) }
UrgentTier == IF HighEntries # {} THEN HighEntries ELSE RiskEntries \ HighEntries

\* C23: whatever the order of the rows, when some row is a risk
\* entry the stockout answer recommends reordering the HIGH-tier entry with
\* the fewest days remaining, or without a HIGH-tier entry the MEDIUM-tier
\* entry with the fewest, and its confidence is medium.
C23_ReorderMostUrgent ==
  (Formatted /\ PredictsStockout /\ RiskEntries # {}) =>
    /\ templated.confidence = "medium"
    /\ \E i \in UrgentTier :
         /\ templated.answer.reorder_first = raw_data[i].product_title
         /\ \A j \in UrgentTier : FloatLE(RiskDays(i), RiskDays(j))

\* the stages of execute, in the order of its statements
StageOrder == <<"classify", "plan", "generate", "validate", "execute", "format">>

\* the stages entered so far are the first stages of execute, each once
InvokedInOrder ==
  /\ Len(invoked) <= Len(StageOrder)
  /\ \A i \in 1..Len(invoked) : invoked[i] = StageOrder[i]

Invoked(stage) == \E i \in 1..Len(invoked) : invoked[i] = stage

\* the stage in which execute raised
FailedStage ==
  IF failed_at = "Classifying" THEN "classify"
  ELSE IF failed_at = "Validating" THEN "validate"
  ELSE IF failed_at = "Executing" THEN "execute"
  ELSE "format"

\* C24: in every request the stages are entered in the order classify,
\* plan, generate, validate, execute, format, each at most once; after a
\* stage failed no further stage is entered; the backend is executed only
\* when the validator returned passed = TRUE, and the formatter is called
\* only when the backend returned its rows.
C24_StagesInOrder ==
  /\ InvokedInOrder
  /\ (failed_at # "none" => (invoked # <<>> /\ invoked[Len(invoked)] = FailedStage))
  /\ (Invoked("execute") =>
        (validation_result # None /\ validation_result.passed))
  /\ ((validation_result # None /\ ~validation_result.passed) =>
        (~Invoked("execute") /\ ~Invoked("format")))
  /\ (Invoked("format") => failed_at \in {"none", "Assembling"})

\* a request went through the six stages: the validator passed the query,
\* the backend returned its rows and the formatter was called
C24_Witness ==
  /\ invoked = StageOrder
  /\ validation_result.passed
  /\ pc = "Assembling"

====
